---- MODULE Spec2Model ----
(***************************************************************************)
(* Model of the OCM synchronization kernel (ocm-core): signed memories,    *)
(* the claim engine, the CRDT (vector clocks, operation log, merge), the   *)
(* transport's replay cache and the sync orchestrator.                     *)
(***************************************************************************)
EXTENDS Integers, Sequences, FiniteSets, TLC

(***************************************************************************)
(* Bounds of the model.                                                    *)
(***************************************************************************)
MaxOps == 2          \* operations created over a run of the CRDT specification
MaxClock == 5        \* largest counter of a vector clock in the CRDT specification
MaxTime == 1         \* wall-clock ticks of the CRDT and node specifications
MaxMemories == 1     \* memories captured over a run of the node specification
MaxRows == 3         \* rows of a signed_memory table in the node specification
MaxFrames == 3       \* frames handled over a run of the network specification
MaxCalls == 2        \* calls of claim_proxy_record, and of sync_with_peer, over a run of their specification
MaxProxies == 1      \* calls of create_proxy_record over a run of the claim specification
MaxConnections == 7  \* inbound connections attempted over a run of the connection specification
MaxCounter == 2      \* largest counter of the clocks VectorClock::compare is called with

PeerIds == {1, 2}  \* the two peers of the CRDT specification

(***************************************************************************)
(* JSON values (serde_json::Value).  One record shape for every kind:      *)
(* t is the kind, s the text of a String, m the map of an Object (a        *)
(* function from keys to values), a the items of an Array.                 *)
(***************************************************************************)
JNull == [t |-> "null", s |-> "", m |-> <<>>, a |-> <<>>]
JStr(str) == [t |-> "str", s |-> str, m |-> <<>>, a |-> <<>>]
JObj(map) == [t |-> "obj", s |-> "", m |-> map, a |-> <<>>]
JArr(items) == [t |-> "arr", s |-> "", m |-> <<>>, a |-> items]
EmptyMap == [k \in {} |-> JNull]
Put(map, k, val) == [x \in (DOMAIN map) \cup {k} |-> IF x = k THEN val ELSE map[x]]
Remove(map, k) == [x \in (DOMAIN map) \ {k} |-> map[x]]

\* Result of one of the four mutations: "ok" carries the new document,
\* "noop" is the early Ok(()) of a delete through a missing key, "err" is
\* CrdtError::OperationFailed.
Ok(j) == [kind |-> "ok", json |-> j]
Noop == [kind |-> "noop", json |-> JNull]
Failed == [kind |-> "err", json |-> JNull]

\* The entry of an object under key, or_insert(default) when it is missing.
Entry(cur, key, default) == IF key \in DOMAIN cur.m THEN cur.m[key] ELSE default

\* The object cur once the walk below key has ended with r: an error below
\* is the error of the walk, a new child is written under key.
Below(cur, key, r) == IF r.kind = "err" THEN Failed ELSE Ok(JObj(Put(cur.m, key, r.json)))

RECURSIVE SetAt(_, _, _)
SetAt(cur, path, val) ==
    IF cur.t # "obj" THEN Failed
    ELSE IF Len(path) = 1 THEN Ok(JObj(Put(cur.m, path[1], val)))
    ELSE Below(cur, path[1], SetAt(Entry(cur, path[1], JObj(EmptyMap)), Tail(path), val))

\* The target of an append once the path is walked.  String::push_str with
\* values "A", "B": the text of the result is the concatenation.
Concat(x, y) == x \o y
AppendTo(cur, val) ==
    CASE cur.t = "arr" -> Ok(JArr(Append(cur.a, val)))
      [] cur.t = "str" -> Ok(IF val.t = "str" THEN JStr(Concat(cur.s, val.s)) ELSE cur)
      [] OTHER -> Failed

RECURSIVE AppendAt(_, _, _)
AppendAt(cur, path, val) ==
    IF path = <<>> \/ cur.t # "obj" THEN AppendTo(cur, val)
    ELSE Below(cur, path[1], AppendAt(Entry(cur, path[1], JNull), Tail(path), val))

\* As Below, for a delete: the early return below is the return of the walk.
BelowDelete(cur, key, r) == IF r.kind = "noop" THEN Noop ELSE Ok(JObj(Put(cur.m, key, r.json)))

RECURSIVE DeleteAt(_, _)
DeleteAt(cur, path) ==
    IF cur.t # "obj" THEN Ok(cur)
    ELSE IF Len(path) = 1 THEN Ok(JObj(Remove(cur.m, path[1])))
    ELSE IF path[1] \in DOMAIN cur.m
         THEN BelowDelete(cur, path[1], DeleteAt(cur.m[path[1]], Tail(path)))
         ELSE Noop

merge_json_values(existing, new) ==
    CASE existing.t = "obj" /\ new.t = "obj" ->
           JObj([k \in (DOMAIN existing.m) \cup (DOMAIN new.m) |->
                    IF k \in DOMAIN new.m THEN new.m[k] ELSE existing.m[k]])
      [] existing.t = "arr" /\ new.t = "arr" -> JArr(existing.a \o new.a)
      [] OTHER -> new

RECURSIVE MergeAt(_, _, _)
MergeAt(cur, path, val) ==
    IF cur.t # "obj" THEN Failed
    ELSE IF Len(path) = 1
         THEN Ok(JObj(Put(cur.m, path[1], merge_json_values(Entry(cur, path[1], JNull), val))))
    ELSE Below(cur, path[1], MergeAt(Entry(cur, path[1], JObj(EmptyMap)), Tail(path), val))

(***************************************************************************)
(* memory_data is a string.  Its model keeps the JSON document it parses   *)
(* to and the form of the text: "canon" is the text serde_json writes      *)
(* (Value::to_string), "raw" is another text of the same document (the     *)
(* field order of a serialized struct), "invalid" is text that does not    *)
(* parse.  Two texts are the same string iff form and document agree.      *)
(***************************************************************************)
Text(form, doc) == [form |-> form, doc |-> doc]
to_string(doc) == Text("canon", doc)
from_str(text) == IF text.form = "invalid" THEN Failed ELSE Ok(text.doc)

\* hex(SHA256(data)): a collision-free digest of the text.
compute_hash(data) == [sha256 |-> data]

(***************************************************************************)
(* Ed25519.  A key pair is named by its key; the DID is derived from the   *)
(* public key.  A signature verifies under a public key iff it was made by *)
(* the matching private key over the same payload.                         *)
(***************************************************************************)
DidOf(key) == [plc |-> key]
PubOf(did) == did.plc
NoSignature == [signer |-> 0, over |-> <<>>]
sign(key, payload) == [signer |-> key, over |-> payload]
verify(pub, payload, signature) == signature.signer = pub /\ signature.over = payload

NewSignedMemory(id, did, memory_type, memory_data, now) ==
    [id |-> id, did |-> did, memory_type |-> memory_type, memory_data |-> memory_data,
     content_hash |-> compute_hash(memory_data), signature |-> NoSignature,
     timestamp |-> now, updated_on |-> now]

get_signing_payload(memory) ==
    <<memory.did, memory.memory_type, memory.content_hash, memory.timestamp>>

verify_hash(memory) == compute_hash(memory.memory_data) = memory.content_hash

sign_memory(key, memory) ==
    [memory EXCEPT !.signature = sign(key, get_signing_payload(memory))]

verify_memory(key, memory) ==
    verify_hash(memory) /\ verify(key, get_signing_payload(memory), memory.signature)

(***************************************************************************)
(* VectorClock: BTreeMap<String, u64>.  A clock is a function from the     *)
(* peer ids it has an entry for to their counters; peer ids are ordered    *)
(* as integers.                                                            *)
(***************************************************************************)
NewClock == [p \in {} |-> 0]

increment(clock, peer_id) ==
    [p \in (DOMAIN clock) \cup {peer_id} |->
        IF p = peer_id THEN (IF peer_id \in DOMAIN clock THEN clock[peer_id] ELSE 0) + 1
        ELSE clock[p]]

\* VectorClock::update that takes the other clock's counter instead of the larger.
update_overwrite(clock, other) ==
    [p \in (DOMAIN clock) \cup (DOMAIN other) |->
        IF p \in DOMAIN other THEN other[p] ELSE clock[p]]

update(clock, other) ==
    [p \in (DOMAIN clock) \cup (DOMAIN other) |->
        IF p \in DOMAIN other
        THEN (IF p \in DOMAIN clock /\ clock[p] > other[p] THEN clock[p] ELSE other[p])
        ELSE clock[p]]

RECURSIVE SortedKeys(_)
SortedKeys(keys) ==
    IF keys = {} THEN <<>>
    ELSE LET least == CHOOSE k \in keys : \A x \in keys : k <= x
         IN <<least>> \o SortedKeys(keys \ {least})

\* The lockstep walk of the two sorted maps; it1, it2 are the keys not yet
\* consumed by the two peekable iterators.
RECURSIVE CompareWalk(_, _, _, _, _, _)
CompareWalk(self, other, it1, it2, self_less, other_less) ==
    CASE it1 # <<>> /\ it2 # <<>> /\ Head(it1) = Head(it2) ->
           CompareWalk(self, other, Tail(it1), Tail(it2),
                       self_less \/ self[Head(it1)] < other[Head(it2)],
                       other_less \/ self[Head(it1)] > other[Head(it2)])
      [] it1 # <<>> /\ it2 # <<>> /\ Head(it1) < Head(it2) ->
           CompareWalk(self, other, Tail(it1), it2,
                       self_less, other_less \/ self[Head(it1)] > 0)
      [] it1 # <<>> /\ it2 # <<>> /\ Head(it1) > Head(it2) ->
           CompareWalk(self, other, it1, Tail(it2),
                       self_less \/ other[Head(it2)] > 0, other_less)
      [] it1 # <<>> /\ it2 = <<>> ->
           CompareWalk(self, other, Tail(it1), it2,
                       self_less, other_less \/ self[Head(it1)] > 0)
      [] it1 = <<>> /\ it2 # <<>> ->
           CompareWalk(self, other, it1, Tail(it2),
                       self_less \/ other[Head(it2)] > 0, other_less)
      [] OTHER ->
           CASE ~self_less /\ ~other_less -> "Equal"
             [] self_less /\ ~other_less -> "Less"
             [] ~self_less /\ other_less -> "Greater"
             [] OTHER -> "Concurrent"

\* A faulty compare: only the peer ids both clocks have an entry for are
\* walked.
compare_common_keys(self, other) ==
    CompareWalk(self, other, SortedKeys((DOMAIN self) \cap (DOMAIN other)),
                SortedKeys((DOMAIN self) \cap (DOMAIN other)), FALSE, FALSE)

compare(self, other) ==
    CompareWalk(self, other, SortedKeys(DOMAIN self), SortedKeys(DOMAIN other), FALSE, FALSE)

(***************************************************************************)
(* CrdtMemory.                                                             *)
(***************************************************************************)
MemoryOperation(operation_id, operation_type, field_path, value, vector_clock, timestamp) ==
    [operation_id |-> operation_id, operation_type |-> operation_type,
     field_path |-> field_path, value |-> value, vector_clock |-> vector_clock,
     timestamp |-> timestamp]

NewCrdtMemory(base_memory, peer_id, now) ==
    [base_memory |-> base_memory,
     vector_clock |-> increment(NewClock, peer_id),
     operations |-> <<>>,
     operation_index |-> {},
     merge_metadata |-> [merged_from |-> <<peer_id>>,
                         conflict_resolution_strategy |-> "LastWriterWins",
                         last_merge_timestamp |-> now]]

\* A faulty finalize_change: memory_data is rewritten, content_hash is not.
finalize_change_stale_hash(mem, data, now) ==
    [mem EXCEPT !.base_memory.memory_data = to_string(data),
                !.base_memory.updated_on = now]

finalize_change(mem, data, now) ==
    [mem EXCEPT !.base_memory.memory_data = to_string(data),
                !.base_memory.content_hash = compute_hash(to_string(data)),
                !.base_memory.updated_on = now]

\* A faulty walk: the document is replaced by an object that has the first
\* key of the path alone.
WalkPath_clobber(data, operation) ==
    Ok(JObj([k \in {operation.field_path[1]} |-> operation.value]))

\* The path walk of apply_set_operation, apply_delete_operation,
\* apply_append_operation and apply_merge_operation on the parsed document.
WalkPath(data, operation) ==
    CASE operation.operation_type = "Set" ->
           SetAt(data, operation.field_path, operation.value)
      [] operation.operation_type = "Delete" ->
           DeleteAt(data, operation.field_path)
      [] operation.operation_type = "Append" ->
           AppendAt(data, operation.field_path, operation.value)
      [] OTHER ->
           MergeAt(data, operation.field_path, operation.value)

\* The end of the four apply_*_operation after the walk has returned r.
Finalized(mem, r, now) ==
    CASE r.kind = "err" -> [err |-> TRUE, mem |-> mem]
      [] r.kind = "noop" -> [err |-> FALSE, mem |-> mem]
      [] OTHER -> [err |-> FALSE, mem |-> finalize_change(mem, r.json, now)]

\* The match on operation_type: parse memory_data, walk the path, finalize.
ApplyMutation(mem, operation, now) ==
    IF from_str(mem.base_memory.memory_data).kind = "err"
    THEN [err |-> TRUE, mem |-> mem]
    ELSE Finalized(mem, WalkPath(from_str(mem.base_memory.memory_data).json, operation), now)

\* The vector clock of apply_operation: update with the operation's clock,
\* then increment for the local peer.
Clocked(mem, operation, peer_id) ==
    [mem EXCEPT !.vector_clock =
        increment(update(mem.vector_clock, operation.vector_clock), peer_id)]

\* A faulty end of apply_operation: the operation is pushed to operations
\* but not inserted into operation_index.
LogOperation_unindexed(r, operation, now) ==
    IF r.err THEN r
    ELSE [err |-> FALSE,
          mem |-> [r.mem EXCEPT !.operations = Append(@, operation),
                                !.merge_metadata.last_merge_timestamp = now]]

\* The end of apply_operation once the mutation has returned r: an error is
\* returned with the clock already moved, a success is logged and indexed.
LogOperation(r, operation, now) ==
    IF r.err THEN r
    ELSE [err |-> FALSE,
          mem |-> [r.mem EXCEPT !.operation_index = @ \cup {operation.operation_id},
                                !.operations = Append(@, operation),
                                !.merge_metadata.last_merge_timestamp = now]]

apply_operation(mem, operation, peer_id, now) ==
    IF operation.operation_id \in mem.operation_index
    THEN [err |-> FALSE, mem |-> mem]
    ELSE LogOperation(ApplyMutation(Clocked(mem, operation, peer_id), operation, now),
                      operation, now)

has_operation(mem, operation_id) ==
    \E i \in 1..Len(mem.operations) : mem.operations[i].operation_id = operation_id

\* transform_operation: a Set of a string over a conflicting local string
\* becomes the combination "local | remote"; every other case is unchanged.
transform_operation(operation, conflicting_ops) ==
    IF /\ operation.operation_type = "Set"
       /\ operation.value.t = "str"
       /\ conflicting_ops[1].value.t = "str"
    THEN [operation EXCEPT !.value =
             JStr(Concat(Concat(conflicting_ops[1].value.s, " | "), operation.value.s))]
    ELSE operation

\* The local operations with the same field_path and a different value, in log order.
ConflictingOps(mem, other_op) ==
    SelectSeq(mem.operations,
              LAMBDA op : op.field_path = other_op.field_path /\ op.value # other_op.value)

ConflictInfo(field_path, local_operation, remote_operation) ==
    [field_path |-> field_path, local_operation |-> local_operation,
     remote_operation |-> remote_operation, conflict_type |-> "ContentMismatch"]

\* A faulty LastWriterWins: the remote operation is applied on a tie.
should_apply_on_tie(conflicting_ops, other_op) ==
    \A i \in 1..Len(conflicting_ops) : ~(conflicting_ops[i].timestamp > other_op.timestamp)

\* A faulty LastWriterWins: the remote operation is applied whatever the
\* timestamps are.
should_apply_always(conflicting_ops, other_op) == TRUE

\* LastWriterWins: the remote operation is applied iff no conflicting local
\* operation has our_time >= other_time.
should_apply(conflicting_ops, other_op) ==
    \A i \in 1..Len(conflicting_ops) : ~(conflicting_ops[i].timestamp >= other_op.timestamp)

\* The state of a merge loop: err tells that an apply_operation has failed
\* (the loop has returned Err and the conflicts are dropped), mem is the
\* CrdtMemory, conflicts the ConflictInfo collected so far.
MergeState(err, mem, conflicts) == [err |-> err, mem |-> mem, conflicts |-> conflicts]
Applied(r, conflicts) == MergeState(r.err, r.mem, IF r.err THEN <<>> ELSE conflicts)

\* A faulty decision: the remote operation is applied whatever the strategy
\* and the conflicts are.
Verdict_applies(strategy, other_op, conflicting_ops) == [kind |-> "apply", op |-> other_op]

\* What the loop of resolve_concurrent_operations decides for other_op, the
\* local operations in conflict with it being conflicting_ops: to apply an
\* operation, to record a conflict, or neither.
Verdict(strategy, other_op, conflicting_ops) ==
    IF conflicting_ops # <<>>
    THEN CASE strategy = "LastWriterWins" ->
                IF should_apply(conflicting_ops, other_op)
                THEN [kind |-> "apply", op |-> other_op]
                ELSE [kind |-> "skip"]
           [] strategy = "OperationalTransform" ->
                [kind |-> "apply", op |-> transform_operation(other_op, conflicting_ops)]
           [] OTHER ->
                [kind |-> "record",
                 info |-> ConflictInfo(other_op.field_path, conflicting_ops[1], other_op)]
    ELSE [kind |-> "apply", op |-> other_op]

Enact(state, verdict, peer_id, now) ==
    CASE verdict.kind = "apply" ->
           Applied(apply_operation(state.mem, verdict.op, peer_id, now), state.conflicts)
      [] verdict.kind = "record" -> [state EXCEPT !.conflicts = Append(@, verdict.info)]
      [] OTHER -> state

\* One turn of the loop of resolve_concurrent_operations on other_op.
ResolveOne(state, other_op, peer_id, now) ==
    IF state.err \/ has_operation(state.mem, other_op.operation_id) THEN state
    ELSE Enact(state,
               Verdict(state.mem.merge_metadata.conflict_resolution_strategy, other_op,
                       ConflictingOps(state.mem, other_op)),
               peer_id, now)

RECURSIVE resolve_concurrent_operations(_, _, _, _, _)
resolve_concurrent_operations(state, other_ops, i, peer_id, now) ==
    IF i > Len(other_ops) THEN state
    ELSE resolve_concurrent_operations(ResolveOne(state, other_ops[i], peer_id, now),
                                       other_ops, i + 1, peer_id, now)

\* One turn of the loop of the Less branch of merge_with: an operation of
\* other that is not in the index is applied.
ApplyOne(state, other_op, peer_id, now) ==
    IF state.err \/ other_op.operation_id \in state.mem.operation_index THEN state
    ELSE Applied(apply_operation(state.mem, other_op, peer_id, now), <<>>)

\* The Less branch of merge_with, in log order; the first error ends the merge.
RECURSIVE ApplyMissing(_, _, _, _, _)
ApplyMissing(state, other_ops, i, peer_id, now) ==
    IF i > Len(other_ops) THEN state
    ELSE ApplyMissing(ApplyOne(state, other_ops[i], peer_id, now),
                      other_ops, i + 1, peer_id, now)

\* Vec::sort_unstable followed by Vec::dedup on the peer ids of merged_from.
RECURSIVE InsertSorted(_, _)
InsertSorted(sorted, x) ==
    IF sorted = <<>> THEN <<x>>
    ELSE IF x <= Head(sorted) THEN <<x>> \o sorted
    ELSE <<Head(sorted)>> \o InsertSorted(Tail(sorted), x)

RECURSIVE sort_unstable(_)
sort_unstable(list) ==
    IF list = <<>> THEN <<>> ELSE InsertSorted(sort_unstable(Tail(list)), Head(list))

RECURSIVE dedup(_)
dedup(list) ==
    IF Len(list) <= 1 THEN list
    ELSE IF list[1] = list[2] THEN dedup(Tail(list))
    ELSE <<Head(list)>> \o dedup(Tail(list))

\* A faulty end of merge_with: other's merged_from is appended to ours and
\* the list is neither sorted nor deduplicated.
NoteMerge_appended(r, other) ==
    IF r.err THEN r
    ELSE [r EXCEPT !.mem.merge_metadata.merged_from = @ \o other.merge_metadata.merged_from]

\* The end of merge_with after the operations of other are handled: other's
\* merged_from joins ours.
NoteMerge(r, other) ==
    IF r.err THEN r
    ELSE [r EXCEPT !.mem.merge_metadata.merged_from =
             dedup(sort_unstable(@ \o other.merge_metadata.merged_from))]

\* merge_with once the clocks are compared.
MergeBy(ordering, mem, other, peer_id, now) ==
    CASE ordering = "Less" ->
           NoteMerge(ApplyMissing(MergeState(FALSE, mem, <<>>), other.operations, 1,
                                  peer_id, now), other)
      [] ordering = "Concurrent" ->
           NoteMerge(resolve_concurrent_operations(MergeState(FALSE, mem, <<>>),
                                                   other.operations, 1, peer_id, now), other)
      [] OTHER -> MergeState(FALSE, mem, <<>>)

merge_with(mem, other, peer_id, now) ==
    MergeBy(compare(mem.vector_clock, other.vector_clock), mem, other, peer_id, now)

(***************************************************************************)
(* CrdtManager: memories is a map from memory id to CrdtMemory.            *)
(***************************************************************************)
add_memory(memories, memory, peer_id, now) ==
    Put(memories, memory.id, NewCrdtMemory(memory, peer_id, now))

\* The map after get_mut(memory_id) has been worked on with result r.
Updated(memories, memory_id, r) ==
    [err |-> r.err, memories |-> Put(memories, memory_id, r.mem)]
Merged(memories, memory_id, r) ==
    [err |-> r.err, memories |-> Put(memories, memory_id, r.mem), conflicts |-> r.conflicts]

\* update_memory builds a Set whose clock is the memory's clock incremented
\* for the local peer and applies it; an unknown memory id is Ok(()).
update_memory(memories, memory_id, operation_id, field_path, value, peer_id, now) ==
    IF memory_id \notin DOMAIN memories THEN [err |-> FALSE, memories |-> memories]
    ELSE Updated(memories, memory_id,
                 apply_operation(memories[memory_id],
                     MemoryOperation(operation_id, "Set", field_path, value,
                         increment(memories[memory_id].vector_clock, peer_id), now),
                     peer_id, now))

merge_memory(memories, memory_id, remote_memory, peer_id, now) ==
    IF memory_id \in DOMAIN memories
    THEN Merged(memories, memory_id,
                merge_with(memories[memory_id], remote_memory, peer_id, now))
    ELSE [err |-> FALSE, memories |-> Put(memories, memory_id, remote_memory),
          conflicts |-> <<>>]

(***************************************************************************)
(* Database: the signed_memory table is the sequence of its rows in        *)
(* insertion order.  The table's schema is created by migrations that are  *)
(* not part of the sources; unique tells whether it declares the id        *)
(* column unique, in which case INSERT fails on an id that is present.     *)
(***************************************************************************)
HasRow(rows, id) == \E i \in 1..Len(rows) : rows[i].id = id

create_signed_memory(rows, memory, unique) ==
    IF unique /\ HasRow(rows, memory.id)
    THEN [err |-> TRUE, rows |-> rows]
    ELSE [err |-> FALSE, rows |-> Append(rows, memory)]

list_signed_memories(rows) == rows

\* The content hashes of the rows of a table.
HashesOf(rows) == {rows[i].content_hash : i \in 1..Len(rows)}

(***************************************************************************)
(* SyncManager.  A node is the record of its database rows (store), its    *)
(* CrdtManager.memories (memories) and its SyncState (sync_in_progress,    *)
(* last_sync_per_peer: a function from the peers synced with to the time). *)
(***************************************************************************)
RECURSIVE AddAll(_, _, _, _, _)
AddAll(map, rows, i, peer_id, now) ==
    IF i > Len(rows) THEN map
    ELSE AddAll(add_memory(map, rows[i], peer_id, now), rows, i + 1, peer_id, now)

initialize_crdt_from_database(node, peer_id, now) ==
    [node EXCEPT !.memories = AddAll(@, list_signed_memories(node.store), 1, peer_id, now)]

\* DateTime::parse_from_rfc3339 on the text of a timestamp.  The text of an
\* instant is the number of the instant; a text that is not RFC 3339 is a
\* negative number.  The result is <<>> for Err and <<instant>> for Ok.
parse_from_rfc3339(text) == IF text < 0 THEN <<>> ELSE <<text>>

\* A faulty filter: a timestamp that does not parse is not newer, and no
\* timestamp is newer than a last_sync that does not parse.
IsNewer_strict(timestamp, last_sync) ==
    \/ last_sync = <<>>
    \/ /\ parse_from_rfc3339(timestamp) # <<>>
       /\ parse_from_rfc3339(last_sync[1]) # <<>>
       /\ parse_from_rfc3339(timestamp)[1] > parse_from_rfc3339(last_sync[1])[1]

\* The filter on the timestamp of a memory: true when there is no last_sync
\* (<<>>), when the timestamp of the memory does not parse, when last_sync
\* does not parse, and when the one is after the other.
IsNewer(timestamp, last_sync) ==
    \/ last_sync = <<>>
    \/ parse_from_rfc3339(timestamp) = <<>>
    \/ parse_from_rfc3339(last_sync[1]) = <<>>
    \/ parse_from_rfc3339(timestamp)[1] > parse_from_rfc3339(last_sync[1])[1]

\* The memories of a table that pass the filter, in table order.
NewerThan(rows, last_sync) ==
    SelectSeq(rows, LAMBDA memory : IsNewer(memory.timestamp, last_sync))

LastSyncOf(node, peer_id) ==
    IF peer_id \in DOMAIN node.last_sync_per_peer
    THEN <<node.last_sync_per_peer[peer_id]>> ELSE <<>>

RECURSIVE HashList(_)
HashList(rows) ==
    IF rows = <<>> THEN <<>> ELSE <<Head(rows).content_hash>> \o HashList(Tail(rows))

Contains(list, x) == \E i \in 1..Len(list) : list[i] = x

\* The SyncRequest sync_with_peer builds from the last_sync it has read.
SyncRequest(requesting_peer, last_sync, rows) ==
    [requesting_peer |-> requesting_peer,
     last_sync_timestamp |-> last_sync,
     known_memory_hashes |-> HashList(NewerThan(list_signed_memories(rows), last_sync))]

handle_sync_request(node, request, local_peer_id) ==
    LET our_memories == list_signed_memories(node.store)
        memories_to_send ==
            SelectSeq(NewerThan(our_memories, request.last_sync_timestamp),
                      LAMBDA memory : ~Contains(request.known_memory_hashes, memory.content_hash))
        missing_hashes ==
            SelectSeq(request.known_memory_hashes,
                      LAMBDA hash : hash \notin HashesOf(our_memories))
    IN [responding_peer |-> local_peer_id,
        memories |-> memories_to_send,
        missing_hashes |-> missing_hashes]

\* The end of one turn of the loop of handle_sync_response, r being what
\* merge_memory has returned: the merged base_memory is stored when there
\* is no conflict, the received memory when the merge has failed.
StoreMerged(node, memory, r, unique) ==
    [node EXCEPT
        !.memories = r.memories,
        !.store = IF r.err THEN create_signed_memory(@, memory, unique).rows
                  ELSE IF r.conflicts = <<>>
                  THEN create_signed_memory(@, r.memories[memory.id].base_memory, unique).rows
                  ELSE @]

\* A faulty turn of the loop: the hash of the received memory is not
\* verified.
StoreReceived_unverified(node, memory, responding_peer, local_peer_id, unique, now) ==
    StoreMerged(node, memory,
                merge_memory(node.memories, memory.id,
                             NewCrdtMemory(memory, responding_peer, now),
                             local_peer_id, now),
                unique)

\* One turn of the loop of handle_sync_response on a received memory.
StoreReceived(node, memory, responding_peer, local_peer_id, unique, now) ==
    IF ~verify_hash(memory) THEN node
    ELSE StoreMerged(node, memory,
                     merge_memory(node.memories, memory.id,
                                  NewCrdtMemory(memory, responding_peer, now),
                                  local_peer_id, now),
                     unique)

RECURSIVE StoreAllReceived(_, _, _, _, _, _, _)
StoreAllReceived(node, received, i, responding_peer, local_peer_id, unique, now) ==
    IF i > Len(received) THEN node
    ELSE StoreAllReceived(
             StoreReceived(node, received[i], responding_peer, local_peer_id, unique, now),
             received, i + 1, responding_peer, local_peer_id, unique, now)

\* The MemorySync frames send_missing_memories builds: one for each missing
\* hash that a stored memory has, carrying the first such memory.
send_missing_memories(rows, peer_id, missing_hashes, local_peer_id) ==
    LET found == SelectSeq(missing_hashes, LAMBDA hash : hash \in HashesOf(rows))
        first(hash) == rows[CHOOSE i \in 1..Len(rows) :
                               /\ rows[i].content_hash = hash
                               /\ \A j \in 1..(i - 1) : rows[j].content_hash # hash]
    IN [k \in 1..Len(found) |->
           [message_type |-> "MemorySync", payload |-> first(found[k]),
            from_peer |-> local_peer_id, to_peer |-> peer_id]]

\* The end of handle_sync_response, stored being the node after the loop.
Responded(stored, response, local_peer_id, now) ==
    [node |-> [stored EXCEPT
                  !.last_sync_per_peer = Put(@, response.responding_peer, now),
                  !.sync_in_progress = @ \ {response.responding_peer}],
     frames |-> send_missing_memories(stored.store, response.responding_peer,
                                      response.missing_hashes, local_peer_id)]

handle_sync_response(node, response, local_peer_id, unique, now) ==
    Responded(StoreAllReceived(node, response.memories, 1, response.responding_peer,
                               local_peer_id, unique, now),
              response, local_peer_id, now)

\* The INSERT of update_memory_field, r being what update_memory has
\* returned: the base_memory of the updated CrdtMemory, if there is one.
Persisted(node, memory_id, r, unique) ==
    IF r.err THEN [err |-> TRUE, node |-> [node EXCEPT !.memories = r.memories]]
    ELSE IF memory_id \notin DOMAIN r.memories
    THEN [err |-> FALSE, node |-> [node EXCEPT !.memories = r.memories]]
    ELSE [err |-> create_signed_memory(node.store, r.memories[memory_id].base_memory,
                                       unique).err,
          node |-> [node EXCEPT
                       !.memories = r.memories,
                       !.store = create_signed_memory(@, r.memories[memory_id].base_memory,
                                                      unique).rows]]

\* update_memory_field: the CRDT update, then the INSERT of base_memory;
\* an error of either is returned after what was done before it.
update_memory_field(node, memory_id, operation_id, field_path, value, local_peer_id, unique, now) ==
    Persisted(node, memory_id,
              update_memory(node.memories, memory_id, operation_id, field_path, value,
                            local_peer_id, now),
              unique)

force_resolve_conflicts(node, memory_id, strategy, unique) ==
    IF memory_id \notin DOMAIN node.memories THEN [err |-> FALSE, node |-> node]
    ELSE LET set == [node EXCEPT
                        !.memories[memory_id].merge_metadata.conflict_resolution_strategy = strategy]
             w == create_signed_memory(node.store, set.memories[memory_id].base_memory, unique)
         IN [err |-> w.err, node |-> [set EXCEPT !.store = w.rows]]

(***************************************************************************)
(* OcmNetworking: inbound handling.  Times are seconds of the wall clock.  *)
(***************************************************************************)
MAX_MESSAGE_SIZE == 1024 * 1024
MESSAGE_TIMEOUT_SECS == 300
NETWORK_SHARED_SECRET == "ocm-network-secret-change-in-production"
MAX_MESSAGES_PER_MINUTE == 60
MAX_CONNECTIONS_PER_IP == 5
RATE_LIMIT_WINDOW_SECS == 60

\* HMAC-SHA256: two tags are equal iff key and content are.
hmac_sha256(key, content) == [key |-> key, over |-> content]

get_message_content_for_hmac(message) ==
    <<message.message_type, message.payload, message.from_peer, message.timestamp,
      message.nonce>>

\* A frame: the NetworkMessage with the length of its serialization (the
\* 4-byte prefix).  timestamp and nonce are the sender's clock and random
\* bytes; whoever builds the frame chooses them.
create_authenticated_message(message_type, payload, from_peer, timestamp, nonce, length) ==
    [message_type |-> message_type, payload |-> payload, from_peer |-> from_peer,
     timestamp |-> timestamp, nonce |-> nonce,
     hmac |-> hmac_sha256(NETWORK_SHARED_SECRET,
                          <<message_type, payload, from_peer, timestamp, nonce>>),
     length |-> length]

\* RateLimiter::check_rate_limit: expired windows are dropped, the entry of
\* the IP is created or reset, then counted unless the limit is reached.
cleanup_expired_windows(message_counts, now) ==
    [ip \in {x \in DOMAIN message_counts :
                now - message_counts[x].window_start < RATE_LIMIT_WINDOW_SECS} |->
        message_counts[ip]]

Windowed(entry, now) ==
    IF now - entry.window_start >= RATE_LIMIT_WINDOW_SECS
    THEN [count |-> 0, window_start |-> now] ELSE entry

Counted(message_counts, peer_ip, entry) ==
    IF entry.count >= MAX_MESSAGES_PER_MINUTE
    THEN [err |-> TRUE, message_counts |-> Put(message_counts, peer_ip, entry)]
    ELSE [err |-> FALSE,
          message_counts |-> Put(message_counts, peer_ip,
                                 [entry EXCEPT !.count = @ + 1])]

OrInsert(map, key, default) == IF key \in DOMAIN map THEN map[key] ELSE default

RateLimited(cleaned, peer_ip, now) ==
    Counted(cleaned, peer_ip,
            Windowed(OrInsert(cleaned, peer_ip, [count |-> 0, window_start |-> now]), now))

check_rate_limit(message_counts, peer_ip, now) ==
    RateLimited(cleanup_expired_windows(message_counts, now), peer_ip, now)

\* A faulty task of ConnectionGuard::drop: the count stays as it is.
Decremented_kept(count) == count

\* A faulty check_connection_limit: the count is incremented without the
\* comparison with the limit.
check_connection_limit_unbounded(tracker, peer_ip) ==
    [err |-> FALSE, tracker |-> Put(tracker, peer_ip, OrInsert(tracker, peer_ip, 0) + 1)]

\* check_connection_limit, under the lock of connection_tracker from the
\* read of the count to its insertion.
check_connection_limit(tracker, peer_ip) ==
    IF OrInsert(tracker, peer_ip, 0) >= MAX_CONNECTIONS_PER_IP
    THEN [err |-> TRUE, tracker |-> tracker]
    ELSE [err |-> FALSE, tracker |-> Put(tracker, peer_ip, OrInsert(tracker, peer_ip, 0) + 1)]

\* The task ConnectionGuard::drop spawns: the count of the IP goes down by
\* one and an entry that has reached 0 is removed.
Decremented(count) == IF count > 0 THEN count - 1 ELSE count
release_guard(tracker, peer_ip) ==
    IF peer_ip \notin DOMAIN tracker THEN tracker
    ELSE IF Decremented(tracker[peer_ip]) = 0 THEN Remove(tracker, peer_ip)
    ELSE Put(tracker, peer_ip, Decremented(tracker[peer_ip]))

\* validate_message: from_peer is a UUID, the payload is within the size
\* limit, timestamp, nonce and hmac are well formed.
validate_message(message) ==
    /\ message.from_peer.uuid
    /\ message.payload.len <= MAX_MESSAGE_SIZE

\* A faulty verify_message_authentication: the HMACs are compared before
\* the age of the message is looked at.
AuthenticationReturn_hmac_first(message, now) ==
    IF message.hmac # hmac_sha256(NETWORK_SHARED_SECRET,
                                  get_message_content_for_hmac(message))
    THEN "forged"
    ELSE IF now - message.timestamp > MESSAGE_TIMEOUT_SECS THEN "expired"
    ELSE ""

\* The return of verify_message_authentication that a message takes: the
\* one for a message that is too old, the one after the comparison of the
\* HMACs ("forged" when they differ, "" when they are equal).
AuthenticationReturn(message, now) ==
    IF now - message.timestamp > MESSAGE_TIMEOUT_SECS THEN "expired"
    ELSE IF message.hmac # hmac_sha256(NETWORK_SHARED_SECRET,
                                       get_message_content_for_hmac(message))
    THEN "forged"
    ELSE ""

verify_message_authentication(message, now) == AuthenticationReturn(message, now) = ""

\* A faulty check_replay_protection: the nonce is not inserted.
ReplayChecked_forgetful(retained, nonce, now) ==
    IF nonce \in DOMAIN retained
    THEN [ok |-> FALSE, message_nonces |-> retained]
    ELSE [ok |-> TRUE, message_nonces |-> retained]

\* check_replay_protection once the old nonces are dropped.
ReplayChecked(retained, nonce, now) ==
    IF nonce \in DOMAIN retained
    THEN [ok |-> FALSE, message_nonces |-> retained]
    ELSE [ok |-> TRUE, message_nonces |-> Put(retained, nonce, now)]

check_replay_protection(message_nonces, message, now) ==
    ReplayChecked([nonce \in {x \in DOMAIN message_nonces :
                                 (now - message_nonces[x]) < MESSAGE_TIMEOUT_SECS} |->
                      message_nonces[nonce]],
                  message.nonce, now)

\* OcmProtocol::verify_federated_memory.  resolved is what resolve_did has
\* returned: "doc", "none" or "err"; identity is <<>> or <<key>>.  With or
\* without a document the memory is verified with the current identity.
verify_federated_memory(identity, memory, resolved) ==
    IF resolved = "err" THEN "Err"
    ELSE IF identity = <<>> THEN "false"
    ELSE IF verify_memory(identity[1], memory) THEN "true" ELSE "false"

\* process_message on the node net (its peers and store); the frames that
\* the MemoryRequest and PeerDiscovery arms send leave net as it is.
process_message(net, message, peer_addr, identity, resolved, unique, now) ==
    CASE message.message_type = "Handshake" ->
           [net EXCEPT !.peers = Put(@, message.from_peer,
                                     [address |-> peer_addr, last_seen |-> now])]
      [] message.message_type = "MemorySync" ->
           IF /\ message.payload.kind = "memory"
              /\ verify_federated_memory(identity, message.payload.memory, resolved) = "true"
           THEN [net EXCEPT !.store =
                    create_signed_memory(@, message.payload.memory, unique).rows]
           ELSE net
      [] message.message_type = "Ping" ->
           IF message.from_peer \in DOMAIN net.peers
           THEN [net EXCEPT !.peers[message.from_peer].last_seen = now]
           ELSE net
      [] OTHER -> net

\* connect_to_peer once the handshake is written: the peer is inserted
\* under the key format!("{}:{}", peer_addr, peer_port), which is no UUID.
AddressKey(peer_addr, peer_port) ==
    [uuid |-> FALSE, name |-> peer_addr \o ":" \o ToString(peer_port)]
connect_to_peer(peers, peer_addr, peer_port, now) ==
    Put(peers, AddressKey(peer_addr, peer_port),
        [address |-> peer_addr, last_seen |-> now])

\* One turn of the loop of handle_connection on a frame that has been read:
\* the node afterwards, where the frame has ended, the frames written to
\* the stream and whether the loop goes on to the next frame.
Turn(net, outcome, acks, open) ==
    [net |-> net, outcome |-> outcome, acks |-> acks, open |-> open]

\* The acknowledgment: a Pong with the payload "ack".
Ack == [message_type |-> "Pong", payload |-> "ack"]

AfterReplay(checked, net, message, peer_addr, identity, resolved, unique, now) ==
    IF ~checked.ok
    THEN Turn([net EXCEPT !.message_nonces = checked.message_nonces], "replay", <<>>, TRUE)
    ELSE Turn(process_message([net EXCEPT !.message_nonces = checked.message_nonces],
                              message, peer_addr, identity, resolved, unique, now),
              "dispatched", <<Ack>>, TRUE)

AfterRateLimit(net, message, peer_addr, identity, resolved, unique, now) ==
    IF ~validate_message(message) THEN Turn(net, "invalid", <<>>, TRUE)
    ELSE IF ~verify_message_authentication(message, now)
    THEN Turn(net, AuthenticationReturn(message, now), <<>>, TRUE)
    ELSE AfterReplay(check_replay_protection(net.message_nonces, message, now),
                     net, message, peer_addr, identity, resolved, unique, now)

RateChecked(limited, net, message, peer_addr, identity, resolved, unique, now) ==
    IF limited.err
    THEN Turn([net EXCEPT !.message_counts = limited.message_counts], "rate_limited",
              <<>>, TRUE)
    ELSE AfterRateLimit([net EXCEPT !.message_counts = limited.message_counts],
                        message, peer_addr, identity, resolved, unique, now)

handle_frame(net, message, peer_addr, identity, resolved, unique, now) ==
    IF message.length > MAX_MESSAGE_SIZE THEN Turn(net, "too_large", <<>>, FALSE)
    ELSE RateChecked(check_rate_limit(net.message_counts, peer_addr, now),
                     net, message, peer_addr, identity, resolved, unique, now)

(***************************************************************************)
(* ClaimToken and the claim_token, proxy_memory tables (sequences of rows  *)
(* in insertion order).  An absent Option is <<>>, a present one <<x>>.    *)
(***************************************************************************)
CLAIM_EXPIRY_HOURS == 30 * 24
hours(h) == h * 3600

\* Session, as create_session builds it.
NewSession(session_id, user_did, permissions, expires_in_hours, now) ==
    [session_id |-> session_id, user_did |-> user_did, permissions |-> permissions,
     created_at |-> now, expires_at |-> now + hours(expires_in_hours),
     last_activity |-> now, is_active |-> TRUE]

\* AuthStore::create_session: the session map after the insert.
create_session(sessions, session_id, user_did, permissions, expires_in_hours, now) ==
    Put(sessions, session_id,
        NewSession(session_id, user_did, permissions, expires_in_hours, now))

\* validate_session that still accepts a session at the instant it expires.
validate_session_inclusive(sessions, session_id, now) ==
    IF session_id \in DOMAIN sessions
    THEN IF sessions[session_id].is_active /\ now <= sessions[session_id].expires_at
         THEN <<sessions[session_id]>>
         ELSE <<>>
    ELSE <<>>

\* AuthStore::validate_session: Some(session) as <<session>>, None as <<>>.
validate_session(sessions, session_id, now) ==
    IF session_id \in DOMAIN sessions
    THEN IF sessions[session_id].is_active /\ now < sessions[session_id].expires_at
         THEN <<sessions[session_id]>>
         ELSE <<>>
    ELSE <<>>

\* AuthStore::update_session_activity.
update_session_activity(sessions, session_id, now) ==
    IF session_id \in DOMAIN sessions
    THEN [sessions EXCEPT ![session_id].last_activity = now]
    ELSE sessions

\* AuthStore::invalidate_session: HashMap::remove.
invalidate_session(sessions, session_id) ==
    [id \in (DOMAIN sessions) \ {session_id} |-> sessions[id]]

NewClaimToken(id, token, memory_id, organization_did, expires_in_hours, now) ==
    [id |-> id, token |-> token, memory_id |-> memory_id,
     organization_did |-> organization_did,
     expiry_timestamp |-> now + hours(expires_in_hours),
     claimed_by_did |-> <<>>, claimed_timestamp |-> <<>>,
     created_timestamp |-> now, updated_on |-> now]

is_expired(token, now) == now > token.expiry_timestamp
is_claimed(token) == token.claimed_by_did # <<>>

\* ClaimToken::claim on the token in memory: the error text ("" for Ok) and
\* the token afterwards.
claim(token, claimer_did, now) ==
    IF is_expired(token, now) THEN [err |-> "Token has expired", token |-> token]
    ELSE IF is_claimed(token)
    THEN [err |-> "Token has already been claimed", token |-> token]
    ELSE [err |-> "",
          token |-> [token EXCEPT !.claimed_by_did = <<claimer_did>>,
                                  !.claimed_timestamp = <<now>>,
                                  !.updated_on = now]]

\* usize subtraction without overflow checks: the result wraps, which is written
\* as the difference and the borrow (the value is low + 2^64 when borrow holds).
wrapping_sub(a, b) ==
    IF a.borrow \/ a.low >= b THEN [borrow |-> a.borrow, low |-> a.low - b]
    ELSE [borrow |-> TRUE, low |-> a.low - b]

Count(rows, Keep(_)) == Len(SelectSeq(rows, Keep))

\* ClaimSystem::get_claim_statistics over the tables. A build with overflow
\* checks panics on a subtraction below zero, one without them wraps.
get_claim_statistics(claim_tokens, proxy_memories, organization_did, overflow_checks, now) ==
    LET tokens == SelectSeq(claim_tokens,
                            LAMBDA t : t.organization_did = organization_did)
        proxies == SelectSeq(proxy_memories,
                             LAMBDA x : x.organization_did = organization_did)
        claimed_tokens == Count(tokens, LAMBDA t : is_claimed(t))
        expired_tokens == Count(tokens, LAMBDA t : is_expired(t, now))
    IN [total_proxy_records |-> Len(proxies),
        total_tokens_created |-> Len(tokens),
        tokens_claimed |-> claimed_tokens,
        tokens_expired |-> expired_tokens,
        tokens_active |->
            wrapping_sub(wrapping_sub([borrow |-> FALSE, low |-> Len(tokens)],
                                      claimed_tokens),
                         expired_tokens),
        panicked |-> overflow_checks /\ Len(tokens) < claimed_tokens + expired_tokens]

\* The first row a SELECT returns, as an Option.
FirstRow(rows) == IF rows = <<>> THEN <<>> ELSE <<rows[1]>>

get_claim_token_by_token(tokens, code) ==
    FirstRow(SelectSeq(tokens, LAMBDA row : row.token = code))

get_signed_memory(rows, id) == FirstRow(SelectSeq(rows, LAMBDA row : row.id = id))

\* A faulty update_claim_token: the UPDATE changes no row.
update_claim_token_lost(tokens, token) == tokens

\* UPDATE claim_token SET ... WHERE id = ?1
update_claim_token(tokens, token) ==
    [i \in 1..Len(tokens) |-> IF tokens[i].id = token.id THEN token ELSE tokens[i]]

NewProxyMemory(id, proxy_for_name, organization_did, memory_data, now) ==
    [id |-> id, proxy_for_name |-> proxy_for_name, organization_did |-> organization_did,
     memory_data |-> memory_data, created_timestamp |-> now, claim_token_id |-> <<>>]

\* create_proxy_record on the tables db, with the organization's identity;
\* fail_at is the store write that fails (0: none).  The writes before the
\* failing one stay.
create_proxy_record(db, key, organization_did, memory_data, k, fail_at, now) ==
    LET signed_memory ==
            sign_memory(key, NewSignedMemory("p" \o ToString(k), organization_did,
                                            "proxy_individual", memory_data, now))
        claim_token ==
            NewClaimToken("t" \o ToString(k), "OCM-" \o ToString(k), signed_memory.id,
                          organization_did, CLAIM_EXPIRY_HOURS, now)
        proxy ==
            [NewProxyMemory("x" \o ToString(k), "Jamie Smith", organization_did,
                            memory_data, now)
             EXCEPT !.claim_token_id = <<claim_token.id>>]
    IN [err |-> fail_at # 0,
        db |-> [signed_memory |-> IF fail_at \in {0, 2, 3}
                                  THEN Append(db.signed_memory, signed_memory)
                                  ELSE db.signed_memory,
                proxy_memory |-> IF fail_at \in {0, 3}
                                 THEN Append(db.proxy_memory, proxy) ELSE db.proxy_memory,
                claim_token |-> IF fail_at = 0
                                THEN Append(db.claim_token, claim_token) ELSE db.claim_token]]

\* claim_proxy_record up to token.claim(): the token is read and claimed in
\* memory, or the call returns the error.
ReadAndClaim(call, found, token_code, claimer, after_success, now) ==
    IF found = <<>>
    THEN [call EXCEPT !.pc = "done", !.token_code = token_code, !.claimer = claimer,
                      !.after_success = after_success, !.read_at = now,
                      !.result = "Claim token not found"]
    ELSE [call EXCEPT !.pc = IF claim(found[1], DidOf(claimer), now).err = ""
                             THEN "claimed" ELSE "done",
                      !.token_code = token_code, !.claimer = claimer,
                      !.after_success = after_success, !.read_at = now,
                      !.token = <<claim(found[1], DidOf(claimer), now).token>>,
                      !.result = claim(found[1], DidOf(claimer), now).err]

\* A faulty construction of the claimed memory: it keeps the memory_type of
\* the original.
Attested_retyped(call, original, k, now) ==
    IF original = <<>>
    THEN [call EXCEPT !.pc = "done", !.result = "Original memory not found"]
    ELSE [call EXCEPT !.pc = "attested",
                      !.claimed = <<sign_memory(call.claimer,
                                       NewSignedMemory("c" \o ToString(k),
                                           DidOf(call.claimer), original[1].memory_type,
                                           original[1].memory_data, now))>>]

\* get_signed_memory of the original, SignedMemory::new for the claimer and
\* attest_memory with the claimer's identity.
Attested(call, original, k, now) ==
    IF original = <<>>
    THEN [call EXCEPT !.pc = "done", !.result = "Original memory not found"]
    ELSE [call EXCEPT !.pc = "attested",
                      !.claimed = <<sign_memory(call.claimer,
                                       NewSignedMemory("c" \o ToString(k),
                                           DidOf(call.claimer), "individual",
                                           original[1].memory_data, now))>>]

(***************************************************************************)
(* State.                                                                  *)
(***************************************************************************)
VARIABLES
    memories,       \* CRDT: peer id -> CrdtManager.memories of that peer
    now,            \* CRDT: the wall clock (chrono::Utc::now)
    op_count,       \* CRDT: operation ids (uuid v4) drawn so far
    resolution_strategy, \* CRDT: the strategy force_resolve_conflicts is called with
    store,          \* node: peer id -> rows of its signed_memory table
    id_unique,      \* node: whether the schema declares signed_memory.id unique
    memory_count,   \* node: memory ids (uuid v4) drawn so far
    sync_in_progress,   \* node: peer id -> SyncState.sync_in_progress
    last_sync_per_peer, \* node: peer id -> SyncState.last_sync_per_peer
    message_nonces,     \* network: OcmNetworking.message_nonces, nonce -> time
    message_counts,     \* network: RateLimiter.message_counts, IP -> count, window_start
    peers,              \* network: OcmNetworking.peers, peer id -> address, last_seen
    current_identity,   \* network: OcmProtocol.current_identity, <<>> or <<key>>
    deliveries,         \* network: the frames handled so far and where each has ended
    connection_tracker, \* network: OcmNetworking.connection_tracker, IP -> count
    connections,        \* network: inbound connection -> where its handle_connection is
    claim_tokens,       \* claims: rows of the claim_token table
    proxy_memories,     \* claims: rows of the proxy_memory table
    calls,              \* claims: call of claim_proxy_record -> its position and locals
    inputs,             \* functions: the arguments a function is called with
    outputs,            \* functions: what the calls made so far have returned
    sync_calls,         \* sync: call of sync_with_peer -> its position and locals
    sent,               \* sync: the requests, responses and frames built so far
    handled,            \* sync: the positions in sent of the messages handled so far
    sessions,           \* auth: AuthStore.sessions, session id -> Session
    locks,              \* tasks: shared mutex -> <<the task that holds it>>, or <<>>
    tasks               \* tasks: task -> the function it runs and its position in it

crdtVars == <<memories, now, op_count, resolution_strategy>>
nodeVars == <<store, id_unique, memory_count, sync_in_progress, last_sync_per_peer>>
netVars == <<message_nonces, message_counts, peers, current_identity, deliveries,
            connection_tracker, connections>>
claimVars == <<claim_tokens, proxy_memories, calls>>
funVars == <<inputs, outputs>>
syncVars == <<sync_calls, sent, handled>>
authVars == <<sessions>>
lockVars == <<locks, tasks>>
vars == <<crdtVars, nodeVars, netVars, claimVars, funVars, syncVars, authVars, lockVars>>

\* What the actions of the CRDT specification and of the node
\* specification leave alone.
notCrdtVars == <<nodeVars, netVars, claimVars, funVars, syncVars, authVars, lockVars>>
notNodeVars == <<netVars, claimVars, funVars, syncVars, authVars, lockVars>>
notNetVars == <<memories, op_count, resolution_strategy, memory_count, sync_in_progress,
                last_sync_per_peer, claimVars, funVars, syncVars, authVars, lockVars>>
notClaimVars == <<memories, op_count, resolution_strategy, id_unique, sync_in_progress,
                  last_sync_per_peer, netVars, funVars, syncVars, authVars, lockVars>>
notFunVars == <<crdtVars, nodeVars, netVars, claimVars, syncVars, authVars, lockVars>>

\* The variables of a specification that does not use them.
NodeIdle ==
    /\ store = [p \in PeerIds |-> <<>>]
    /\ id_unique = FALSE
    /\ memory_count = 0
    /\ sync_in_progress = [p \in PeerIds |-> {}]
    /\ last_sync_per_peer = [p \in PeerIds |-> EmptyMap]

ClaimIdle ==
    /\ claim_tokens = <<>>
    /\ proxy_memories = <<>>
    /\ calls = <<>>

FunIdle ==
    /\ inputs = <<>>
    /\ outputs = <<>>

AuthIdle == sessions = <<>>
LockIdle == locks = <<>> /\ tasks = <<>>

SyncIdle ==
    /\ AuthIdle
    /\ LockIdle
    /\ sync_calls = <<>>
    /\ sent = <<>>
    /\ handled = {}

CrdtIdle ==
    /\ memories = [p \in PeerIds |-> EmptyMap]
    /\ now = 0
    /\ op_count = 0
    /\ resolution_strategy = "ManualResolution"

NetIdle ==
    /\ message_nonces = EmptyMap
    /\ message_counts = EmptyMap
    /\ peers = EmptyMap
    /\ current_identity = <<>>
    /\ deliveries = <<>>
    /\ connection_tracker = EmptyMap
    /\ connections = <<>>

(***************************************************************************)
(* The CRDT specification: two CrdtManagers that hold one memory, edit it  *)
(* with update_memory and hand each other their CrdtMemory for             *)
(* merge_memory.                                                           *)
(***************************************************************************)
MemoryId == "m1"
AuthorKey == 1
\* The (field_path, value) pairs update_memory is called with.
Updates == {<<<<"f">>, JStr("B")>>, <<<<"f">>, JStr("C")>>, <<<<"f", "g">>, JStr("B")>>}
AppendPaths == {<<"f">>}
AppendValues == {JStr("A")}
Strategies == {"LastWriterWins", "OperationalTransform", "ManualResolution"}
Other(p) == CHOOSE q \in PeerIds : q # p

\* The memory both peers start from: captured, signed and stored by its author.
BaseMemory ==
    sign_memory(AuthorKey,
        NewSignedMemory(MemoryId, DidOf(AuthorKey), "individual",
                        Text("raw", JObj([f |-> JStr("A")])), 0))

Holds(p) == MemoryId \in DOMAIN memories[p]

\* The counters of the vector clocks of a map stay within the bound.
ClocksWithinBound(map) ==
    \A id \in DOMAIN map : \A q \in DOMAIN map[id].vector_clock :
        map[id].vector_clock[q] <= MaxClock

CrdtInit ==
    /\ memories = [p \in PeerIds |-> EmptyMap]
    /\ now = 0
    /\ op_count = 0
    /\ resolution_strategy \in Strategies \ {"LastWriterWins"}
    /\ NodeIdle
    /\ NetIdle
    /\ ClaimIdle
    /\ FunIdle
    /\ SyncIdle

AddMemory(p) ==
    /\ ~Holds(p)
    /\ LET new_map == add_memory(memories[p], BaseMemory, p, now)
       IN /\ memories' = [memories EXCEPT ![p] = new_map]
    /\ UNCHANGED <<now, op_count, resolution_strategy>>
    /\ UNCHANGED notCrdtVars

UpdateMemory(p, field_path, value) ==
    /\ Holds(p)
    /\ op_count < MaxOps
    /\ \E r \in {update_memory(memories[p], MemoryId, op_count + 1, field_path, value, p, now)} :
          /\ ClocksWithinBound(r.memories)
          /\ memories' = [memories EXCEPT ![p] = r.memories]
    /\ op_count' = op_count + 1
    /\ UNCHANGED <<now, resolution_strategy>>
    /\ UNCHANGED notCrdtVars

\* A direct call of the public CrdtMemory::apply_operation by the owner of
\* the memory, with an Append built the way update_memory builds its Set.
ApplyOperation(p, field_path, value) ==
    /\ Holds(p)
    /\ op_count < MaxOps
    /\ \E r \in {apply_operation(memories[p][MemoryId],
                      MemoryOperation(op_count + 1, "Append", field_path, value,
                          increment(memories[p][MemoryId].vector_clock, p), now),
                      p, now)} :
          /\ ClocksWithinBound(Put(memories[p], MemoryId, r.mem))
          /\ memories' = [memories EXCEPT ![p] = Put(memories[p], MemoryId, r.mem)]
    /\ op_count' = op_count + 1
    /\ UNCHANGED <<now, resolution_strategy>>
    /\ UNCHANGED notCrdtVars

MergeMemory(p) ==
    /\ Holds(Other(p))
    /\ \E r \in {merge_memory(memories[p], MemoryId, memories[Other(p)][MemoryId], p, now)} :
          /\ ClocksWithinBound(r.memories)
          /\ memories' = [memories EXCEPT ![p] = r.memories]
    /\ UNCHANGED <<now, op_count, resolution_strategy>>
    /\ UNCHANGED notCrdtVars

\* The assignment of force_resolve_conflicts; a call that names the strategy
\* the memory already has changes nothing and is left out.
SetStrategy(p) ==
    /\ Holds(p)
    /\ memories[p][MemoryId].merge_metadata.conflict_resolution_strategy # resolution_strategy
    /\ LET new_map == [memories[p] EXCEPT
               ![MemoryId].merge_metadata.conflict_resolution_strategy = resolution_strategy]
       IN /\ memories' = [memories EXCEPT ![p] = new_map]
    /\ UNCHANGED <<now, op_count, resolution_strategy>>
    /\ UNCHANGED notCrdtVars

Tick ==
    /\ now < MaxTime
    /\ now' = now + 1
    /\ UNCHANGED <<memories, op_count, resolution_strategy>>
    /\ UNCHANGED notCrdtVars

CrdtNext ==
    \/ \E p \in PeerIds : AddMemory(p)
    \/ \E p \in PeerIds, u \in Updates : UpdateMemory(p, u[1], u[2])
    \/ \E p \in PeerIds, field_path \in AppendPaths, value \in AppendValues :
          ApplyOperation(p, field_path, value)
    \/ \E p \in PeerIds : MergeMemory(p)
    \/ \E p \in PeerIds : SetStrategy(p)
    \/ Tick

SpecCrdt == CrdtInit /\ [][CrdtNext]_vars

\* What peer p's merge of the other peer's present CrdtMemory returns and
\* leaves behind.
MergeOfOther(p) ==
    merge_with(memories[p][MemoryId], memories[Other(p)][MemoryId], p, now)

\* Peer p has merged the other peer's final CrdtMemory: merging it leaves
\* p's CrdtMemory as it is.
MergedFinal(p) == ~MergeOfOther(p).err /\ MergeOfOther(p).mem = memories[p][MemoryId]

Quiescent == (\A p \in PeerIds : Holds(p)) /\ (\A p \in PeerIds : MergedFinal(p))

\* C1: once each of two peers has merged the other's final CrdtMemory, they
\* hold the same content_hash or each of them has got a non-empty conflict
\* record from its merge.
C1_QuiescentConvergence ==
    Quiescent =>
        \/ memories[1][MemoryId].base_memory.content_hash
              = memories[2][MemoryId].base_memory.content_hash
        \/ \A p \in PeerIds : MergeOfOther(p).conflicts # <<>>

\* The operation ids of a log, and whether none of them occurs twice.
NoDuplicateIds(operations) ==
    \A i, j \in 1..Len(operations) :
        operations[i].operation_id = operations[j].operation_id => i = j

\* What a second merge of the same CrdtMemory, made at time t right after
\* the merge of MergeOfOther(p), returns and leaves behind.
SecondMergeOfOther(p, t) ==
    merge_with(MergeOfOther(p).mem, memories[Other(p)][MemoryId], p, t)

LoggedOps(p) == {memories[p][MemoryId].operations[i] :
                    i \in 1..Len(memories[p][MemoryId].operations)}
AllLoggedOps == LoggedOps(1) \cup LoggedOps(2)

\* The value base_memory.memory_data of peer p has at the top-level key.
FieldOf(p, key) == Entry(from_str(memories[p][MemoryId].base_memory.memory_data).json,
                         key, JNull)

\* Each of the two peers has applied one Set of its own before it has got
\* the other's, the two are on the same field, and no other operation was
\* made.
OneSetEach ==
    /\ \A p \in PeerIds : Holds(p) /\ memories[p][MemoryId].operations # <<>>
    /\ memories[1][MemoryId].operations[1].operation_id
          # memories[2][MemoryId].operations[1].operation_id
    /\ Cardinality({op.operation_id : op \in AllLoggedOps}) = 2
    /\ \A op \in AllLoggedOps : op.operation_type = "Set"
    /\ \A x, y \in AllLoggedOps : x.field_path = y.field_path

\* The LWW scenario: one Set each, written one second apart, both memories
\* under LastWriterWins.
LwwScenario ==
    /\ OneSetEach
    /\ \E x, y \in AllLoggedOps : y.timestamp = x.timestamp + 1
    /\ \A p \in PeerIds :
          memories[p][MemoryId].merge_metadata.conflict_resolution_strategy = "LastWriterWins"

\* The operation of the scenario that was written last.
LaterOp == CHOOSE y \in AllLoggedOps : \A x \in AllLoggedOps : x.timestamp <= y.timestamp

\* C11: in the LWW scenario, once the two peers have merged with each other
\* in both directions, the field has on both peers the value written at
\* T+1s and the two content_hash are equal.
C11_LwwConverges ==
    (LwwScenario /\ Quiescent) =>
        /\ \A p \in PeerIds : FieldOf(p, LaterOp.field_path[1]) = LaterOp.value
        /\ memories[1][MemoryId].base_memory.content_hash
              = memories[2][MemoryId].base_memory.content_hash

\* The LWW scenario after the merges, the two Sets having written different
\* values.
C11_Witness ==
    /\ LwwScenario /\ Quiescent
    /\ \E x, y \in AllLoggedOps : x.value # y.value

\* C12: in the LWW scenario, once the two peers have merged with each other
\* in both directions, the operation log of each peer holds both Sets.
C12_LwwLogsHoldBoth ==
    (LwwScenario /\ Quiescent) => \A p \in PeerIds : LoggedOps(p) = AllLoggedOps

\* The Set peer p has made itself: the first entry of its log.
OwnSet(p) == memories[p][MemoryId].operations[1]

\* The OT scenario: one Set each of two different strings, written at the
\* same instant, both memories under OperationalTransform.
OtScenario ==
    /\ OneSetEach
    /\ OwnSet(1).timestamp = OwnSet(2).timestamp
    /\ OwnSet(1).value.t = "str" /\ OwnSet(2).value.t = "str"
    /\ OwnSet(1).value # OwnSet(2).value
    /\ \A p \in PeerIds :
          memories[p][MemoryId].merge_metadata.conflict_resolution_strategy
              = "OperationalTransform"

\* The combination of two strings in the one and in the other orientation.
Combined(x, y) == JStr(Concat(Concat(x.s, " | "), y.s))

\* C13: in the OT scenario, once the two peers have merged with each other,
\* the field has the same value on both peers, and that value is the
\* combination of the two strings in one of the two orientations.
C13_OtConverges ==
    (OtScenario /\ Quiescent) =>
        /\ FieldOf(1, OwnSet(1).field_path[1]) = FieldOf(2, OwnSet(1).field_path[1])
        /\ FieldOf(1, OwnSet(1).field_path[1])
              \in {Combined(OwnSet(1).value, OwnSet(2).value),
                   Combined(OwnSet(2).value, OwnSet(1).value)}

\* The remote operations that the loop of resolve_concurrent_operations at
\* peer p meets with a conflicting local operation: the positions, in the
\* other peer's log, of the operations p has not got and for which p's log
\* has an operation of the same field_path and a different value.
ConflictingRemote(p) ==
    IF Holds(p) /\ Holds(Other(p))
          /\ compare(memories[p][MemoryId].vector_clock,
                     memories[Other(p)][MemoryId].vector_clock) = "Concurrent"
    THEN {i \in 1..Len(memories[Other(p)][MemoryId].operations) :
             /\ ~has_operation(memories[p][MemoryId],
                               memories[Other(p)][MemoryId].operations[i].operation_id)
             /\ ConflictingOps(memories[p][MemoryId],
                               memories[Other(p)][MemoryId].operations[i]) # <<>>}
    ELSE {}

\* The turn of the loop at peer p on the remote operation at position i.
TurnOn(p, i) ==
    ResolveOne(MergeState(FALSE, memories[p][MemoryId], <<>>),
               memories[Other(p)][MemoryId].operations[i], p, now)

\* apply_operation has been called in a turn that has returned r: the
\* vector clock has moved.
ApplyCalled(mem, r) == r.mem.vector_clock # mem.vector_clock

StrictlyLatest(conflicting_ops, other_op) ==
    \A j \in 1..Len(conflicting_ops) : conflicting_ops[j].timestamp < other_op.timestamp

StrategyOf(p) == memories[p][MemoryId].merge_metadata.conflict_resolution_strategy

ConflictsAbout(conflicts, other_op) ==
    Len(SelectSeq(conflicts, LAMBDA info : info.remote_operation = other_op))

\* What the turn on a remote operation in conflict leaves under
\* ManualResolution: one ConflictInfo and the CrdtMemory as it was.
RecordedOnly(mem, other_op, r) ==
    /\ ~r.err
    /\ Len(r.conflicts) = 1
    /\ r.conflicts[1].field_path = other_op.field_path
    /\ r.conflicts[1].remote_operation = other_op
    /\ r.conflicts[1].conflict_type = "ContentMismatch"
    /\ \E j \in 1..Len(mem.operations) :
          /\ r.conflicts[1].local_operation = mem.operations[j]
          /\ mem.operations[j].field_path = other_op.field_path
          /\ mem.operations[j].value # other_op.value
    /\ r.mem.base_memory = mem.base_memory
    /\ r.mem.operations = mem.operations
    /\ r.mem.operation_index = mem.operation_index
    /\ r.mem.vector_clock = mem.vector_clock

\* C23: in the Concurrent branch under ManualResolution each remote
\* operation with a conflicting local operation yields one ConflictInfo
\* (its field_path, a conflicting local operation, the remote operation,
\* ContentMismatch) and is not applied: memory_data, content_hash, the log,
\* the index and the vector clock stay as they were; a merge that returns
\* Ok returns that ConflictInfo once.
C23_ManualRecordsOnly ==
    \A p \in PeerIds : \A i \in ConflictingRemote(p) :
        StrategyOf(p) = "ManualResolution" =>
            /\ RecordedOnly(memories[p][MemoryId], memories[Other(p)][MemoryId].operations[i],
                            TurnOn(p, i))
            /\ ~MergeOfOther(p).err =>
                  ConflictsAbout(MergeOfOther(p).conflicts,
                                 memories[Other(p)][MemoryId].operations[i]) = 1

\* Under ManualResolution peer 1 meets a remote operation in conflict and
\* its merge returns a conflict.
C23_Witness ==
    /\ ConflictingRemote(1) # {}
    /\ StrategyOf(1) = "ManualResolution"
    /\ ~MergeOfOther(1).err
    /\ MergeOfOther(1).conflicts # <<>>

(***************************************************************************)
(* The node specification: one node (peer 1) with its identity, database   *)
(* and SyncManager; it captures memories, edits them through the           *)
(* SyncManager and handles the sync responses of a remote peer (peer 2).   *)
(***************************************************************************)
LocalPeers == {1}
IdentityKey(n) == n    \* the key pair of the identity node n has created
MemoryIdOf(k) == "m" \o ToString(k)

CaptureDoc == JObj([f |-> JStr("A")])
\* The (field_path, value) pairs update_memory_field is called with: one
\* that applies and one that fails on the string at f.
FieldUpdates == {<<<<"f">>, JStr("B")>>, <<<<"f", "g">>, JStr("B")>>}

\* What the remote peer's responses carry: a memory it has authored and
\* signed, the same with memory_data altered in transit, and its copy of the
\* first memory of the local node after an edit of its own.
RemoteValid ==
    sign_memory(IdentityKey(2),
        NewSignedMemory("r1", DidOf(IdentityKey(2)), "individual",
                        Text("raw", JObj([f |-> JStr("B")])), 0))
RemoteTampered == [RemoteValid EXCEPT !.memory_data = Text("raw", JObj([f |-> JStr("C")]))]
RemoteEdited ==
    [sign_memory(IdentityKey(1),
         NewSignedMemory(MemoryIdOf(1), DidOf(IdentityKey(1)), "individual",
                         Text("raw", CaptureDoc), 0))
     EXCEPT !.memory_data = Text("canon", JObj([f |-> JStr("B")])),
            !.content_hash = compute_hash(Text("canon", JObj([f |-> JStr("B")])))]
RemoteMemories == {RemoteValid, RemoteTampered, RemoteEdited}

RemoteResponses ==
    {[responding_peer |-> 2, memories |-> <<memory>>, missing_hashes |-> <<>>] :
         memory \in RemoteMemories}

Node(n) ==
    [store |-> store[n], memories |-> memories[n],
     sync_in_progress |-> sync_in_progress[n],
     last_sync_per_peer |-> last_sync_per_peer[n]]

SetNode(n, node) ==
    /\ store' = [store EXCEPT ![n] = node.store]
    /\ memories' = [memories EXCEPT ![n] = node.memories]
    /\ sync_in_progress' = [sync_in_progress EXCEPT ![n] = node.sync_in_progress]
    /\ last_sync_per_peer' = [last_sync_per_peer EXCEPT ![n] = node.last_sync_per_peer]

StoredIds(n) == {store[n][i].id : i \in 1..Len(store[n])}

WithinNodeBounds(node) == Len(node.store) <= MaxRows /\ ClocksWithinBound(node.memories)

NodeInit ==
    /\ memories = [p \in PeerIds |-> EmptyMap]
    /\ now = 0
    /\ op_count = 0
    /\ resolution_strategy = "ManualResolution"
    /\ store = [p \in PeerIds |-> <<>>]
    /\ id_unique \in BOOLEAN
    /\ memory_count = 0
    /\ sync_in_progress = [p \in PeerIds |-> {}]
    /\ last_sync_per_peer = [p \in PeerIds |-> EmptyMap]
    /\ NetIdle
    /\ ClaimIdle
    /\ FunIdle
    /\ SyncIdle

\* Capture, attestation and storage of a new memory (main).
Capture(n) ==
    /\ memory_count < MaxMemories
    /\ \E w \in {create_signed_memory(store[n],
                      sign_memory(IdentityKey(n),
                          NewSignedMemory(MemoryIdOf(memory_count + 1), DidOf(IdentityKey(n)),
                                          "individual", Text("raw", CaptureDoc), now)),
                      id_unique)} :
          /\ Len(w.rows) <= MaxRows
          /\ store' = [store EXCEPT ![n] = w.rows]
    /\ memory_count' = memory_count + 1
    /\ UNCHANGED <<memories, now, op_count, resolution_strategy, id_unique,
                   sync_in_progress, last_sync_per_peer>>
    /\ UNCHANGED notNodeVars

InitializeCrdt(n) ==
    /\ \E node \in {initialize_crdt_from_database(Node(n), n, now)} : SetNode(n, node)
    /\ UNCHANGED <<now, op_count, resolution_strategy, id_unique, memory_count>>
    /\ UNCHANGED notNodeVars

\* What a caller of update_memory_field sees at its return: the result,
\* whether the memory was in the store before the call, the row
\* get_signed_memory reads back and the base_memory of the CrdtManager.
UpdateReturn(r, memory_id, field_path, value, was_stored) ==
    [memory_id |-> memory_id, field_path |-> field_path, value |-> value,
     err |-> r.err, was_stored |-> was_stored,
     read_back |-> get_signed_memory(r.node.store, memory_id),
     base_memory |-> IF memory_id \in DOMAIN r.node.memories
                     THEN <<r.node.memories[memory_id].base_memory>> ELSE <<>>]

\* update_memory_field on a memory of the CrdtManager or of the store.
UpdateMemoryField(n, memory_id, field_path, value) ==
    /\ op_count < MaxOps
    /\ \E r \in {update_memory_field(Node(n), memory_id, op_count + 1, field_path, value,
                                     n, id_unique, now)} :
          /\ WithinNodeBounds(r.node)
          /\ SetNode(n, r.node)
          /\ outputs' = <<UpdateReturn(r, memory_id, field_path, value,
                                       HasRow(store[n], memory_id))>>
    /\ op_count' = op_count + 1
    /\ UNCHANGED <<now, resolution_strategy, id_unique, memory_count>>
    /\ UNCHANGED <<netVars, claimVars, inputs, syncVars, authVars, lockVars>>

ForceResolveConflicts(n, memory_id) ==
    /\ \E r \in {force_resolve_conflicts(Node(n), memory_id, resolution_strategy, id_unique)} :
          /\ WithinNodeBounds(r.node)
          /\ SetNode(n, r.node)
    /\ UNCHANGED <<now, op_count, resolution_strategy, id_unique, memory_count>>
    /\ UNCHANGED notNodeVars

\* handle_sync_response on a response of the remote peer; the frames it
\* builds for the missing hashes are not sent.
ReceiveSyncResponse(n, response) ==
    /\ \E r \in {handle_sync_response(Node(n), response, n, id_unique, now)} :
          /\ WithinNodeBounds(r.node)
          /\ SetNode(n, r.node)
    /\ UNCHANGED <<now, op_count, resolution_strategy, id_unique, memory_count>>
    /\ UNCHANGED notNodeVars

NodeNext ==
    \/ \E n \in LocalPeers : Capture(n)
    \/ \E n \in LocalPeers : InitializeCrdt(n)
    \/ \E n \in LocalPeers :
          \E memory_id \in (DOMAIN memories[n]) \cup StoredIds(n), u \in FieldUpdates :
             UpdateMemoryField(n, memory_id, u[1], u[2])
    \/ \E n \in LocalPeers : \E memory_id \in DOMAIN memories[n] :
          ForceResolveConflicts(n, memory_id)
    \/ \E n \in LocalPeers, response \in RemoteResponses : ReceiveSyncResponse(n, response)
    \/ Tick

SpecNode == NodeInit /\ [][NodeNext]_vars

\* The rows of all tables and the base memories of all CrdtManagers.
StoredMemories == UNION {{store[n][i] : i \in 1..Len(store[n])} : n \in PeerIds}
BaseMemories == UNION {{memories[n][id].base_memory : id \in DOMAIN memories[n]} : n \in PeerIds}

\* C2: the signature of every memory in a store verifies under the public
\* key of the memory's author DID over the memory's signing payload.
C2_StoredSignaturesVerify ==
    \A memory \in StoredMemories :
        verify(PubOf(memory.did), get_signing_payload(memory), memory.signature)

\* C3: every memory in a store and every base_memory of a CrdtMemory has
\* content_hash equal to the hash of its memory_data.
C3_ContentHashMatches ==
    \A memory \in StoredMemories \cup BaseMemories : verify_hash(memory)

\* A node that has stored a received memory and holds a base_memory whose
\* memory_data an operation has rewritten.
C3_Witness ==
    \E n \in LocalPeers :
        /\ \E i \in 1..Len(store[n]) : store[n][i].id = RemoteValid.id
        /\ \E id \in DOMAIN memories[n] :
              /\ memories[n][id].operations # <<>>
              /\ memories[n][id].base_memory.memory_data.form = "canon"

\* The value a document has at a path, JNull where the path leads nowhere.
RECURSIVE ValueAt(_, _)
ValueAt(doc, path) ==
    IF path = <<>> THEN doc
    ELSE IF doc.t = "obj" /\ path[1] \in DOMAIN doc.m THEN ValueAt(doc.m[path[1]], Tail(path))
    ELSE JNull

\* C20: when update_memory_field has returned success for a memory that was
\* in the store, the row read back by id holds the value at the path, its
\* content_hash matches its memory_data, and it is the base_memory the
\* CrdtManager has for the id.
C20_UpdateReadBack ==
    \A i \in 1..Len(outputs) :
        (~outputs[i].err /\ outputs[i].was_stored) =>
            /\ outputs[i].read_back # <<>>
            /\ from_str(outputs[i].read_back[1].memory_data).kind = "ok"
            /\ ValueAt(from_str(outputs[i].read_back[1].memory_data).json,
                       outputs[i].field_path) = outputs[i].value
            /\ verify_hash(outputs[i].read_back[1])
            /\ outputs[i].base_memory = outputs[i].read_back

(***************************************************************************)
(* The network specification: one node (NetPeer) handles the frames that   *)
(* arrive on its open connections from one IP, while the wall clock moves. *)
(***************************************************************************)
NetPeer == 1
PeerIp == "10.0.0.2"
RemotePeer == [uuid |-> TRUE, name |-> "peer-2"]
Malformed == [uuid |-> FALSE, name |-> "peer-2"]

\* The instants the wall clock takes: the start and the seconds around the
\* message timeout.
Instants == {0, MESSAGE_TIMEOUT_SECS - 1, MESSAGE_TIMEOUT_SECS, MESSAGE_TIMEOUT_SECS + 1}

\* Payloads: a memory authored and signed by the remote identity, the same
\* with memory_data altered, a memory that names the remote author and is
\* signed by the local identity, and text that is no SignedMemory.
AsPayload(memory) == [kind |-> "memory", len |-> 1, memory |-> memory]
SizedPayload(len) == [kind |-> "text", len |-> len, memory |-> <<>>]
TextPayload == SizedPayload(1)

\* The length of serde_json::to_vec(&message), which the sender writes as
\* the 4-byte prefix: the bytes of the payload and at least one byte for
\* each of the fields of NetworkMessage around it.
NetworkMessageFields == <<"message_type", "payload", "from_peer", "timestamp", "nonce", "hmac">>
serialized_len(payload) == payload.len + Len(NetworkMessageFields)

\* The frame of a NetworkMessage as send_message writes it.
Frame(message_type, payload, from_peer, timestamp, nonce) ==
    create_authenticated_message(message_type, payload, from_peer, timestamp, nonce,
                                 serialized_len(payload))
LocallySigned ==
    sign_memory(IdentityKey(NetPeer),
        NewSignedMemory("r2", DidOf(IdentityKey(2)), "individual",
                        Text("raw", JObj([f |-> JStr("C")])), 0))

SyncFrames ==
    {Frame("MemorySync", AsPayload(RemoteValid), RemotePeer, t, "n1") :
        t \in {0, MESSAGE_TIMEOUT_SECS}}
    \cup {Frame("MemorySync", AsPayload(memory), RemotePeer, 0, "n2") :
             memory \in {RemoteTampered, LocallySigned}}
\* Among them two frames that are well formed and authenticated and whose
\* payload is of MAX_MESSAGE_SIZE bytes and of one byte more.
OtherFrames ==
    {Frame("Handshake", TextPayload, RemotePeer, 0, "n1"),
     Frame("Ping", TextPayload, RemotePeer, 0, "n2"),
     Frame("MemorySync", TextPayload, Malformed, 0, "n2"),
     Frame("Ping", SizedPayload(MAX_MESSAGE_SIZE), RemotePeer, 0, "n3"),
     Frame("Ping", SizedPayload(MAX_MESSAGE_SIZE + 1), RemotePeer, 0, "n3")}
Forged(frame) == [frame EXCEPT !.hmac = hmac_sha256("guess", get_message_content_for_hmac(frame))]
Frames ==
    SyncFrames \cup OtherFrames
    \cup {Forged(Frame("MemorySync", AsPayload(RemoteValid), RemotePeer, 0, "n1"))}

\* What resolve_did can return for a DID: the cached document for the DID
\* of the current identity, anything the directory answers for another.
ResolveOutcomes(did, identity) ==
    IF identity # <<>> /\ did = DidOf(identity[1]) THEN {"doc"} ELSE {"doc", "none", "err"}

NetNode ==
    [message_counts |-> message_counts, message_nonces |-> message_nonces,
     peers |-> peers, store |-> store[NetPeer]]

NetInit ==
    /\ memories = [p \in PeerIds |-> EmptyMap]
    /\ now = 0
    /\ op_count = 0
    /\ resolution_strategy = "ManualResolution"
    /\ store = [p \in PeerIds |-> <<>>]
    /\ id_unique \in BOOLEAN
    /\ memory_count = 0
    /\ sync_in_progress = [p \in PeerIds |-> {}]
    /\ last_sync_per_peer = [p \in PeerIds |-> EmptyMap]
    /\ message_nonces = EmptyMap
    /\ message_counts \in
          {EmptyMap,
           [ip \in {PeerIp} |-> [count |-> MAX_MESSAGES_PER_MINUTE - 1, window_start |-> 0]]}
    /\ peers = EmptyMap
    /\ current_identity \in {<<>>, <<IdentityKey(NetPeer)>>}
    /\ deliveries = <<>>
    /\ connection_tracker = EmptyMap
    /\ connections = <<>>
    /\ ClaimIdle
    /\ FunIdle
    /\ SyncIdle

\* The times at which a frame with the nonce was dispatched, by the record.
DispatchTimes(record, nonce) ==
    {record[i].at : i \in {j \in 1..Len(record) :
                              record[j].frame.nonce = nonce /\ record[j].outcome = "dispatched"}}

\* One turn of the loop of handle_connection on a frame from PeerIp.
Deliver(frame, resolved) ==
    /\ Len(deliveries) < MaxFrames
    /\ \E r \in {handle_frame(NetNode, frame, PeerIp, current_identity, resolved,
                              id_unique, now)} :
          /\ message_counts' = r.net.message_counts
          /\ message_nonces' = r.net.message_nonces
          /\ peers' = r.net.peers
          /\ store' = [store EXCEPT ![NetPeer] = r.net.store]
          /\ deliveries' = Append(deliveries,
                [frame |-> frame, at |-> now, outcome |-> r.outcome,
                 acks |-> r.acks, open |-> r.open,
                 accepted_before |-> DispatchTimes(deliveries, frame.nonce),
                 stored |-> r.net.store # store[NetPeer]])
    /\ UNCHANGED <<now, id_unique, current_identity, connection_tracker, connections>>
    /\ UNCHANGED notNetVars

\* The wall clock moves to a later instant.
Elapse(t) ==
    /\ t > now
    /\ now' = t
    /\ UNCHANGED <<store, id_unique, netVars>>
    /\ UNCHANGED notNetVars

NetNext ==
    \/ \E frame \in Frames :
          \E resolved \in
                IF frame.payload.kind = "memory"
                THEN ResolveOutcomes(frame.payload.memory.did, current_identity)
                ELSE {"none"} :
             Deliver(frame, resolved)
    \/ \E t \in Instants : Elapse(t)

SpecNet == NetInit /\ [][NetNext]_vars

\* C5: a frame whose nonce was dispatched less than MESSAGE_TIMEOUT_SECS
\* earlier is not dispatched and leaves the store as it is; a frame whose
\* nonce was dispatched before, each time at least MESSAGE_TIMEOUT_SECS
\* earlier, is not rejected by the replay check.
C5_ReplayWindow ==
    \A i \in 1..Len(deliveries) :
        LET d == deliveries[i]
        IN d.accepted_before # {} =>
              IF \E t \in d.accepted_before : d.at - t < MESSAGE_TIMEOUT_SECS
              THEN d.outcome # "dispatched" /\ ~d.stored
              ELSE d.outcome # "replay"

\* A nonce dispatched, rejected as a replay within the window and dispatched
\* again after it, the store growing each time it is dispatched.
C5_Witness ==
    \E i, j, k \in 1..Len(deliveries) :
        /\ i < j /\ j < k
        /\ deliveries[j].frame.nonce = deliveries[i].frame.nonce
        /\ deliveries[k].frame.nonce = deliveries[i].frame.nonce
        /\ deliveries[i].outcome = "dispatched" /\ deliveries[i].stored
        /\ deliveries[j].outcome = "replay"
        /\ deliveries[j].at - deliveries[i].at < MESSAGE_TIMEOUT_SECS
        /\ deliveries[k].outcome = "dispatched" /\ deliveries[k].stored

\* C10: the MemorySync handler stores the received memory iff its
\* content_hash matches its memory_data and its signature verifies under
\* the public key of its author DID.
C10_MemorySyncStoresIffVerified ==
    \A d \in {deliveries[i] : i \in 1..Len(deliveries)} :
        (d.outcome = "dispatched" /\ d.frame.message_type = "MemorySync"
            /\ d.frame.payload.kind = "memory") =>
            (d.stored <=>
                /\ verify_hash(d.frame.payload.memory)
                /\ verify(PubOf(d.frame.payload.memory.did),
                          get_signing_payload(d.frame.payload.memory),
                          d.frame.payload.memory.signature))

\* C18: a frame that is rejected for nothing but its size is not rejected
\* when its payload is of exactly MAX_MESSAGE_SIZE bytes, and is rejected
\* when its payload is of MAX_MESSAGE_SIZE + 1 bytes.
C18_PayloadBoundary ==
    \A i \in 1..Len(deliveries) :
        /\ deliveries[i].frame.payload.len = MAX_MESSAGE_SIZE
              => deliveries[i].outcome \notin {"too_large", "invalid"}
        /\ deliveries[i].frame.payload.len = MAX_MESSAGE_SIZE + 1
              => deliveries[i].outcome \in {"too_large", "invalid"}

\* The checks of the loop of handle_connection on a frame, each on the
\* state before the frame: the rate limit of the IP, the envelope, the
\* HMAC, the age of the timestamp, the nonce among the retained ones.
RateLimitPasses == ~check_rate_limit(message_counts, PeerIp, now).err
HmacPasses(frame) ==
    frame.hmac = hmac_sha256(NETWORK_SHARED_SECRET, get_message_content_for_hmac(frame))
AgePasses(frame) == now - frame.timestamp <= MESSAGE_TIMEOUT_SECS
ReplayPasses(frame) ==
    ~\E nonce \in DOMAIN message_nonces :
        nonce = frame.nonce /\ now - message_nonces[nonce] < MESSAGE_TIMEOUT_SECS
PassesChecks(frame) ==
    /\ RateLimitPasses
    /\ validate_message(frame)
    /\ HmacPasses(frame)
    /\ AgePasses(frame)
    /\ ReplayPasses(frame)

\* The first check a frame fails ("" when it fails none), the HMAC check
\* coming before the age check or after it.
AfterEnvelope(frame, authentication) ==
    IF authentication[1] # "" THEN authentication[1]
    ELSE IF authentication[2] # "" THEN authentication[2]
    ELSE IF ~ReplayPasses(frame) THEN "replay"
    ELSE ""
FirstFailed(frame, authentication) ==
    IF ~RateLimitPasses THEN "rate_limited"
    ELSE IF ~validate_message(frame) THEN "invalid"
    ELSE AfterEnvelope(frame, authentication)
Forgery(frame) == IF HmacPasses(frame) THEN "" ELSE "forged"
Expiry(frame) == IF AgePasses(frame) THEN "" ELSE "expired"

\* A step of the loop on a frame, the same on a frame whose length prefix
\* is within the limit (its body is read), and what the claim says of the
\* step: d is the record of the turn, failed the first check the frame
\* fails.
FrameHandled == Len(deliveries') = Len(deliveries) + 1
FrameRead == FrameHandled /\ deliveries'[Len(deliveries')].outcome # "too_large"
DispatchedIffPasses(d, failed) ==
    /\ (d.outcome = "dispatched" /\ d.acks = <<Ack>>) <=> PassesChecks(d.frame)
    /\ PassesChecks(d.frame) <=> failed = ""
    /\ failed # "" =>
          /\ d.outcome = failed
          /\ d.acks = <<>>
          /\ store' = store
          /\ peers' = peers
          /\ d.open

ClaimNode == 1
OrganizationKey == 1
Claimers == {2, 3}
ClaimCalls == 1..MaxCalls
TokenCodes == {"OCM-1", "OCM-0"}
JamieData == Text("raw", JObj([first_name |-> JStr("Jamie")]))

\* The instants the wall clock takes: the start and the seconds around the
\* expiry of a token created at the start.
ClaimInstants == {0, hours(CLAIM_EXPIRY_HOURS), hours(CLAIM_EXPIRY_HOURS) + 1}

IdleCall ==
    [pc |-> "idle", token_code |-> "", claimer |-> 0, token |-> <<>>, claimed |-> <<>>,
     result |-> "", after_success |-> FALSE, wrote |-> {}, read_at |-> 0,
     read_back |-> <<>>]

Returned(c) == calls[c].pc = "done"
Succeeded(c) == calls[c].result = "Ok"

ClaimInit ==
    /\ memories = [p \in PeerIds |-> EmptyMap]
    /\ now = 0
    /\ op_count = 0
    /\ resolution_strategy = "ManualResolution"
    /\ store = [p \in PeerIds |-> <<>>]
    /\ id_unique = FALSE
    /\ memory_count = 0
    /\ sync_in_progress = [p \in PeerIds |-> {}]
    /\ last_sync_per_peer = [p \in PeerIds |-> EmptyMap]
    /\ NetIdle
    /\ claim_tokens = <<>>
    /\ proxy_memories = <<>>
    /\ calls = [c \in ClaimCalls |-> IdleCall]
    /\ FunIdle
    /\ SyncIdle

CreateProxyRecord(fail_at) ==
    /\ Len(proxy_memories) < MaxProxies
    /\ Len(claim_tokens) < MaxProxies
    /\ Len(store[ClaimNode]) < MaxProxies
    /\ \E r \in {create_proxy_record(
                    [signed_memory |-> store[ClaimNode], proxy_memory |-> proxy_memories,
                     claim_token |-> claim_tokens],
                    OrganizationKey, DidOf(OrganizationKey), JamieData,
                    Len(store[ClaimNode]) + 1, fail_at, now)} :
          /\ store' = [store EXCEPT ![ClaimNode] = r.db.signed_memory]
          /\ proxy_memories' = r.db.proxy_memory
          /\ claim_tokens' = r.db.claim_token
    /\ UNCHANGED <<now, memory_count, calls>>
    /\ UNCHANGED notClaimVars

ClaimRead(c, token_code, claimer) ==
    /\ calls[c].pc = "idle"
    /\ calls' = [calls EXCEPT ![c] =
          ReadAndClaim(@, get_claim_token_by_token(claim_tokens, token_code), token_code,
                       claimer,
                       \E other \in ClaimCalls :
                           Succeeded(other) /\ calls[other].token_code = token_code,
                       now)]
    /\ UNCHANGED <<now, store, memory_count, claim_tokens, proxy_memories>>
    /\ UNCHANGED notClaimVars

ClaimFetch(c) ==
    /\ calls[c].pc = "claimed"
    /\ calls' = [calls EXCEPT ![c] =
          Attested(@, get_signed_memory(store[ClaimNode], calls[c].token[1].memory_id),
                   memory_count + 1, now)]
    /\ memory_count' = memory_count + 1
    /\ UNCHANGED <<now, store, claim_tokens, proxy_memories>>
    /\ UNCHANGED notClaimVars

\* create_signed_memory of the claimed memory; fails tells that the INSERT
\* returns an error.
ClaimStore(c, fails) ==
    /\ calls[c].pc = "attested"
    /\ IF fails
       THEN /\ calls' = [calls EXCEPT ![c].pc = "done",
                                      ![c].result = "create_signed_memory failed"]
            /\ UNCHANGED store
       ELSE /\ store' = [store EXCEPT ![ClaimNode] =
                            create_signed_memory(@, calls[c].claimed[1], id_unique).rows]
            /\ calls' = [calls EXCEPT ![c].pc = "stored",
                                      ![c].wrote = @ \cup {"signed_memory"}]
    /\ UNCHANGED <<now, memory_count, claim_tokens, proxy_memories>>
    /\ UNCHANGED notClaimVars

\* update_claim_token with the token claimed in memory; fails tells that the
\* UPDATE returns an error.
ClaimUpdate(c, fails) ==
    /\ calls[c].pc = "stored"
    /\ IF fails
       THEN /\ calls' = [calls EXCEPT ![c].pc = "done",
                                      ![c].result = "update_claim_token failed"]
            /\ UNCHANGED claim_tokens
       ELSE /\ claim_tokens' = update_claim_token(claim_tokens, calls[c].token[1])
            /\ calls' = [calls EXCEPT
                  ![c].pc = "done", ![c].result = "Ok",
                  ![c].wrote = @ \cup {"claim_token"},
                  ![c].read_back = get_claim_token_by_token(
                                       update_claim_token(claim_tokens, calls[c].token[1]),
                                       calls[c].token_code)]
    /\ UNCHANGED <<now, store, memory_count, proxy_memories>>
    /\ UNCHANGED notClaimVars

ClaimElapse(t) ==
    /\ t > now
    /\ now' = t
    /\ UNCHANGED <<store, memory_count, claimVars>>
    /\ UNCHANGED notClaimVars

ClaimNext ==
    \/ \E fail_at \in 0..3 : CreateProxyRecord(fail_at)
    \/ \E c \in ClaimCalls, token_code \in TokenCodes, claimer \in Claimers :
          ClaimRead(c, token_code, claimer)
    \/ \E c \in ClaimCalls : ClaimFetch(c)
    \/ \E c \in ClaimCalls, fails \in BOOLEAN : ClaimStore(c, fails)
    \/ \E c \in ClaimCalls, fails \in BOOLEAN : ClaimUpdate(c, fails)
    \/ \E t \in ClaimInstants : ClaimElapse(t)

SpecClaim == ClaimInit /\ [][ClaimNext]_vars

\* The rows of signed_memory that calls on the token have stored.
ClaimedMemories(token_code) ==
    {calls[c].claimed[1].id :
        c \in {x \in ClaimCalls : calls[x].token_code = token_code
                                     /\ "signed_memory" \in calls[x].wrote}}

\* C6: for any interleaving of the calls of claim_proxy_record on one token
\* at most one call succeeds and at most one claimed memory is stored for
\* the token, and the claimed_by_did of a stored token never changes once it
\* is set.
C6_SingleShot ==
    /\ [](\A token_code \in TokenCodes :
             /\ Cardinality({c \in ClaimCalls :
                               calls[c].token_code = token_code /\ Succeeded(c)}) <= 1
             /\ Cardinality(ClaimedMemories(token_code)) <= 1)
    /\ [][\A i \in 1..Len(claim_tokens) :
             is_claimed(claim_tokens[i]) =>
                 /\ Len(claim_tokens') >= i
                 /\ claim_tokens'[i].claimed_by_did = claim_tokens[i].claimed_by_did]_vars

\* C19: a call that has succeeded has returned a memory that is in the
\* store, whose did is the claimer's DID, whose memory_type is "individual"
\* and whose memory_data is that of the original memory of the token; the
\* original, authored by the organization, is in the store, and no row of
\* the store is ever changed or removed.
C19_ClaimedMemoryStored ==
    /\ [](\A c \in ClaimCalls :
             Succeeded(c) =>
                 /\ \E i \in 1..Len(store[ClaimNode]) :
                       store[ClaimNode][i] = calls[c].claimed[1]
                 /\ calls[c].claimed[1].did = DidOf(calls[c].claimer)
                 /\ calls[c].claimed[1].memory_type = "individual"
                 /\ get_signed_memory(store[ClaimNode], calls[c].token[1].memory_id) # <<>>
                 /\ \E i \in 1..Len(store[ClaimNode]) :
                       /\ store[ClaimNode][i].id = calls[c].token[1].memory_id
                       /\ store[ClaimNode][i].did = DidOf(OrganizationKey)
                       /\ store[ClaimNode][i].memory_type = "proxy_individual"
                       /\ store[ClaimNode][i].memory_data = calls[c].claimed[1].memory_data)
    /\ [][\A i \in 1..Len(store[ClaimNode]) :
             /\ Len(store'[ClaimNode]) >= i
             /\ store'[ClaimNode][i] = store[ClaimNode][i]]_vars

\* A call has succeeded and its claimed memory is a row of the store next
\* to the original.
C19_Witness ==
    \E c \in ClaimCalls :
        /\ Succeeded(c)
        /\ Len(store[ClaimNode]) >= 2
        /\ calls[c].claimed[1].id # calls[c].token[1].memory_id

\* C25: after create_proxy_record, whether it has succeeded or failed at one
\* of its store writes, every proxy record's claim token is in the store and
\* every claim token in the store has the proxy record that references it.
C25_TokenIffProxy ==
    /\ \A i \in 1..Len(proxy_memories) :
          \E j \in 1..Len(claim_tokens) : proxy_memories[i].claim_token_id = <<claim_tokens[j].id>>
    /\ \A j \in 1..Len(claim_tokens) :
          \E i \in 1..Len(proxy_memories) : proxy_memories[i].claim_token_id = <<claim_tokens[j].id>>

\* C7: when a call succeeds, the token read back from the store has
\* claimed_by_did its claimer; a call on the token that is made after a call
\* has succeeded fails with the already-claimed error and writes neither a
\* memory nor the token.
C7_SecondClaimAlreadyClaimed ==
    \A c \in ClaimCalls :
        /\ Succeeded(c) =>
              /\ calls[c].read_back # <<>>
              /\ calls[c].read_back[1].claimed_by_did = <<DidOf(calls[c].claimer)>>
        /\ (Returned(c) /\ calls[c].after_success /\ calls[c].token # <<>>)
              => /\ calls[c].result = "Token has already been claimed"
                 /\ calls[c].wrote = {}

\* C7 as the code has it: the later call fails with the already-claimed
\* error if the token has not expired when it is read, and with the expired
\* error if it has.
C7_SecondClaimFails ==
    \A c \in ClaimCalls :
        /\ Succeeded(c) =>
              /\ calls[c].read_back # <<>>
              /\ calls[c].read_back[1].claimed_by_did = <<DidOf(calls[c].claimer)>>
        /\ (Returned(c) /\ calls[c].after_success /\ calls[c].token # <<>>)
              => /\ calls[c].result =
                       IF is_expired(calls[c].token[1], calls[c].read_at)
                       THEN "Token has expired" ELSE "Token has already been claimed"
                 /\ calls[c].wrote = {}

\* A call that has succeeded and a later call on the same token that has
\* returned.
C7_Witness ==
    \E c, later \in ClaimCalls :
        /\ Succeeded(c)
        /\ Returned(later) /\ calls[later].after_success
        /\ calls[later].token_code = calls[c].token_code
        /\ calls[later].result = "Token has already been claimed"

(***************************************************************************)
(* The clock specification: VectorClock::compare called with every pair of *)
(* clocks over three peer ids and the counters up to MaxCounter; an entry  *)
(* may be absent or present with counter 0.                                *)
(***************************************************************************)
ClockPeers == {1, 2, 3}
Clocks ==
    UNION {[present -> 0..MaxCounter] : present \in SUBSET ClockPeers}

ClockInit ==
    /\ CrdtIdle
    /\ NodeIdle
    /\ NetIdle
    /\ ClaimIdle
    /\ SyncIdle
    /\ inputs \in [self : Clocks, other : Clocks]
    /\ outputs = <<>>

Compare ==
    /\ outputs = <<>>
    /\ outputs' = <<compare(inputs.self, inputs.other)>>
    /\ UNCHANGED inputs
    /\ UNCHANGED notFunVars

ClockNext == Compare

SpecClock == ClockInit /\ [][ClockNext]_vars

\* The counter a clock has for a peer id, a missing entry read as 0.
CounterOf(clock, peer_id) == IF peer_id \in DOMAIN clock THEN clock[peer_id] ELSE 0

\* C14: compare(a, b) is Equal when a and b agree on every peer (a missing
\* entry read as 0), Less when a is componentwise <= b and differs, Greater
\* when a is componentwise >= b and differs, and Concurrent when one
\* component of a is smaller and another is larger.
C14_CompareByDomination ==
    outputs # <<>> =>
        LET smaller == \E q \in ClockPeers :
                          CounterOf(inputs.self, q) < CounterOf(inputs.other, q)
            larger == \E q \in ClockPeers :
                          CounterOf(inputs.self, q) > CounterOf(inputs.other, q)
        IN outputs[1] = IF smaller /\ larger THEN "Concurrent"
                        ELSE IF smaller THEN "Less"
                        ELSE IF larger THEN "Greater"
                        ELSE "Equal"

\* compare has returned Equal for two clocks that differ as maps: one has an
\* entry with counter 0 the other lacks.
C14_Witness ==
    /\ outputs = <<"Equal">>
    /\ inputs.self # inputs.other

(***************************************************************************)
(* The commutation specification: two Set operations with different ids on *)
(* disjoint field paths are applied to one CrdtMemory with                 *)
(* apply_operation, in the one order and in the other.                     *)
(***************************************************************************)
CommutePeer == 1
SetPaths == {<<"a">>, <<"b">>, <<"f">>, <<"f", "g">>, <<"f", "h">>, <<"a", "g">>}
SetValues == {JStr("B"), JObj([g |-> JStr("C")])}
CommuteDocs ==
    {Text("raw", JObj(EmptyMap)), Text("raw", JObj([f |-> JStr("A")])),
     Text("canon", JObj([f |-> JObj([g |-> JStr("A")])])), Text("invalid", JNull)}

\* Neither path leads through the other: none is a prefix of the other.
IsPrefix(x, y) == Len(x) <= Len(y) /\ SubSeq(y, 1, Len(x)) = x
Disjoint(x, y) == ~IsPrefix(x, y) /\ ~IsPrefix(y, x)

SetOperation(operation_id, field_path, value) ==
    MemoryOperation(operation_id, "Set", field_path, value, increment(NewClock, 2), 0)

CommuteMemory(memory_data) ==
    NewCrdtMemory(sign_memory(AuthorKey,
                      NewSignedMemory(MemoryId, DidOf(AuthorKey), "individual", memory_data, 0)),
                  CommutePeer, 0)

CommuteInit ==
    /\ CrdtIdle
    /\ NodeIdle
    /\ NetIdle
    /\ ClaimIdle
    /\ SyncIdle
    /\ \E memory_data \in CommuteDocs, x, y \in SetPaths, v, w \in SetValues :
          /\ Disjoint(x, y)
          /\ inputs = [operations |-> <<SetOperation(1, x, v), SetOperation(2, y, w)>>,
                       memory |-> CommuteMemory(memory_data)]
    /\ outputs = [forward |-> <<>>, backward |-> <<>>]

\* The CrdtMemory an order of application has reached so far.
Reached(results) == IF results = <<>> THEN inputs.memory ELSE results[Len(results)].mem

\* The next apply_operation of the order first, second.
ApplyForward ==
    /\ Len(outputs.forward) < 2
    /\ outputs' = [outputs EXCEPT !.forward =
          Append(@, apply_operation(Reached(@), inputs.operations[Len(@) + 1],
                                    CommutePeer, now))]
    /\ UNCHANGED inputs
    /\ UNCHANGED notFunVars

\* The next apply_operation of the order second, first.
ApplyBackward ==
    /\ Len(outputs.backward) < 2
    /\ outputs' = [outputs EXCEPT !.backward =
          Append(@, apply_operation(Reached(@), inputs.operations[2 - Len(@)],
                                    CommutePeer, now))]
    /\ UNCHANGED inputs
    /\ UNCHANGED notFunVars

CommuteNext == ApplyForward \/ ApplyBackward

SpecCommute == CommuteInit /\ [][CommuteNext]_vars

BothOrdersDone == Len(outputs.forward) = 2 /\ Len(outputs.backward) = 2

\* C15: two Set operations on disjoint field paths leave the same
\* memory_data and the same content_hash in whichever order they are
\* applied to a CrdtMemory.
C15_DisjointSetsCommute ==
    BothOrdersDone =>
        /\ Reached(outputs.forward).base_memory.memory_data
              = Reached(outputs.backward).base_memory.memory_data
        /\ Reached(outputs.forward).base_memory.content_hash
              = Reached(outputs.backward).base_memory.content_hash

\* Both orders are applied, no apply_operation has failed, and the two
\* operations have written below the same key.
C15_Witness ==
    /\ BothOrdersDone
    /\ \A i \in 1..2 : ~outputs.forward[i].err /\ ~outputs.backward[i].err
    /\ inputs.operations[1].field_path[1] = inputs.operations[2].field_path[1]
    /\ Reached(outputs.forward).base_memory.memory_data # inputs.memory.base_memory.memory_data

(***************************************************************************)
(* The rate specification: the RateLimiter of one node and the frames of   *)
(* one IP.  Each frame that has been parsed goes through check_rate_limit  *)
(* at the time it is read; outputs counts, for each instant, the frames    *)
(* that have passed.                                                       *)
(***************************************************************************)
RateIp == "10.0.0.1"
\* The instants frames are read at: the start, and the last second of and
\* the first second after the window that opens at the start.
RateInstants == {0, RATE_LIMIT_WINDOW_SECS - 1, RATE_LIMIT_WINDOW_SECS}

RateInit ==
    /\ CrdtIdle
    /\ NodeIdle
    /\ NetIdle
    /\ ClaimIdle
    /\ SyncIdle
    /\ inputs = <<>>
    /\ outputs = [passed |-> [t \in RateInstants |-> 0], dropped |-> FALSE]

\* handle_connection has parsed a frame of the IP and calls check_rate_limit.
CheckRateLimit(peer_ip) ==
    /\ \E r \in {check_rate_limit(message_counts, peer_ip, now)} :
          /\ message_counts' = r.message_counts
          /\ outputs' = IF r.err THEN [outputs EXCEPT !.dropped = TRUE]
                        ELSE [outputs EXCEPT !.passed[now] = @ + 1]
    /\ UNCHANGED <<now, inputs, message_nonces, peers, current_identity, deliveries,
                   connection_tracker, connections>>
    /\ UNCHANGED <<memories, op_count, resolution_strategy, nodeVars, claimVars, syncVars, authVars, lockVars>>

RateElapse(t) ==
    /\ t > now
    /\ now' = t
    /\ UNCHANGED <<memories, op_count, resolution_strategy, nodeVars, netVars, claimVars,
                   funVars, syncVars, authVars, lockVars>>

RateNext ==
    \/ CheckRateLimit(RateIp)
    \/ \E t \in RateInstants : RateElapse(t)

SpecRate == RateInit /\ [][RateNext]_vars

\* The frames that have passed the limiter in the 60 seconds from s on.
RECURSIVE PassedIn(_, _)
PassedIn(instants, s) ==
    IF instants = {} THEN 0
    ELSE LET t == CHOOSE x \in instants : TRUE
         IN (IF s <= t /\ t < s + RATE_LIMIT_WINDOW_SECS THEN outputs.passed[t] ELSE 0)
            + PassedIn(instants \ {t}, s)

\* C16: in every interval of 60 seconds at most 60 frames of the IP pass
\* the rate limiter.
C16_SlidingWindow ==
    \A s \in RateInstants : PassedIn(RateInstants, s) <= MAX_MESSAGES_PER_MINUTE

(***************************************************************************)
(* The connection specification: inbound connections of one IP.  Each is   *)
(* a task running handle_connection: it is admitted or refused by          *)
(* check_connection_limit, an admitted one is open until its loop ends     *)
(* and its ConnectionGuard is dropped, and the task the guard spawns       *)
(* lowers the count some time later.                                       *)
(***************************************************************************)
ConnIp == "10.0.0.1"
Connections == 1..MaxConnections

ConnInit ==
    /\ CrdtIdle
    /\ NodeIdle
    /\ message_nonces = EmptyMap
    /\ message_counts = EmptyMap
    /\ peers = EmptyMap
    /\ current_identity = <<>>
    /\ deliveries = <<>>
    /\ connection_tracker = EmptyMap
    /\ connections = [c \in Connections |-> "none"]
    /\ ClaimIdle
    /\ FunIdle
    /\ SyncIdle

\* The connections that are admitted and still open.
OpenConnections == {c \in Connections : connections[c] = "open"}

\* handle_connection starts: check_connection_limit admits or refuses.
Connect(c) ==
    /\ connections[c] = "none"
    /\ \E r \in {check_connection_limit(connection_tracker, ConnIp)} :
          /\ connection_tracker' = r.tracker
          /\ connections' = [connections EXCEPT ![c] = IF r.err THEN "refused" ELSE "open"]
    /\ UNCHANGED <<message_nonces, message_counts, peers, current_identity, deliveries>>
    /\ UNCHANGED notNetVars
    /\ UNCHANGED <<now, store, id_unique>>

\* The ways handle_connection leaves its loop: read_exact of the length
\* fails (the peer has closed), the length is above MAX_MESSAGE_SIZE, a
\* read or write of the socket returns an error, verify_message_authentication
\* or process_message returns an error.
ExitPaths == {"peer_closed", "too_large", "io_error", "handler_error"}

\* The loop of handle_connection ends by one of its exit paths: the guard
\* is dropped and spawns its task.
Close(c, exit) ==
    /\ connections[c] = "open"
    /\ connections' = [connections EXCEPT ![c] = exit]
    /\ UNCHANGED <<message_nonces, message_counts, peers, current_identity, deliveries,
                   connection_tracker>>
    /\ UNCHANGED notNetVars
    /\ UNCHANGED <<now, store, id_unique>>

\* The task spawned by the guard of a closed connection runs.
ReleaseGuard(c) ==
    /\ connections[c] \in ExitPaths
    /\ connection_tracker' = release_guard(connection_tracker, ConnIp)
    /\ connections' = [connections EXCEPT ![c] = "released"]
    /\ UNCHANGED <<message_nonces, message_counts, peers, current_identity, deliveries>>
    /\ UNCHANGED notNetVars
    /\ UNCHANGED <<now, store, id_unique>>

\* The connections are numbered in the order in which their tasks take the
\* lock of the tracker in check_connection_limit.
Admit(c) ==
    /\ \A b \in 1..(c - 1) : connections[b] # "none"
    /\ Connect(c)

ConnNext ==
    \/ \E c \in Connections : Admit(c)
    \/ \E c \in Connections : \E exit \in ExitPaths : Close(c, exit)
    \/ \E c \in Connections : ReleaseGuard(c)

SpecConn == ConnInit /\ [][ConnNext]_vars

\* C17: at every moment at most 5 connections of the IP are admitted and
\* still open, and a connection attempted while 5 are open is refused.
C17_ConnectionCap ==
    /\ [](Cardinality(OpenConnections) <= MAX_CONNECTIONS_PER_IP)
    /\ [][\A c \in Connections :
             (/\ connections[c] = "none" /\ connections'[c] # "none"
              /\ Cardinality(OpenConnections) = MAX_CONNECTIONS_PER_IP)
                 => connections'[c] = "refused"]_vars

\* Five connections are open, one attempt was refused, and one connection
\* was admitted after another had closed and its guard had run.
C17_Witness ==
    /\ Cardinality(OpenConnections) = MAX_CONNECTIONS_PER_IP
    /\ \E c \in Connections : connections[c] = "refused"
    /\ \E c \in Connections : connections[c] = "released"

\* The connection specification with the scheduling of the runtime: a task
\* that a dropped guard has spawned is run, and the lock of the tracker is
\* granted to it, after finitely many steps of the other tasks.
\* One connection more than the limit is attempted.
LiveConnections == 1..(MAX_CONNECTIONS_PER_IP + 1)

ConnLiveNext ==
    \/ \E c \in LiveConnections : Admit(c)
    \/ \E c \in LiveConnections : \E exit \in ExitPaths : Close(c, exit)
    \/ \E c \in LiveConnections : ReleaseGuard(c)

SpecConnLive ==
    ConnInit /\ [][ConnLiveNext]_vars
             /\ \A c \in LiveConnections : WF_vars(ReleaseGuard(c))

\* The connections under a guard: admitted, and the task of their guard
\* has not run.
Guarded == {c \in Connections : connections[c] \in {"open"} \cup ExitPaths}
SlotFree == ~check_connection_limit(connection_tracker, ConnIp).err

\* C27: on each exit path of an admitted connection the count of its IP is
\* eventually lowered, once (the count is at every moment the number of
\* admitted connections whose guard task has not run, the entry is absent
\* at zero, and again and again no connection that has left its loop waits
\* for its guard task); after a connection of an IP at the limit has
\* closed, a new connection of the IP is eventually one that is admitted.
C27_GuardReleases ==
    /\ [](OrInsert(connection_tracker, ConnIp, 0) = Cardinality(Guarded))
    /\ [](ConnIp \in DOMAIN connection_tracker => connection_tracker[ConnIp] > 0)
    /\ []<>(\A c \in Connections : connections[c] \notin ExitPaths)
    /\ (Cardinality(Guarded) = MAX_CONNECTIONS_PER_IP
          /\ \E c \in Connections : connections[c] \in ExitPaths) ~> SlotFree

\* Each exit path has been taken by a connection whose guard task is to
\* run, the guard task of another has run, and the connection attempted
\* after MAX_CONNECTIONS_PER_IP others was admitted.
C27_Witness ==
    /\ \A exit \in ExitPaths :
          \E c \in Connections : connections[c] = exit
    /\ \E c \in Connections : connections[c] = "released"
    /\ connections[MAX_CONNECTIONS_PER_IP + 1] = "open"


(***************************************************************************)
(* The synchronisation specification: the Initiator calls sync_with_peer   *)
(* for the Responder, and the request, the response and the MemorySync     *)
(* frames the handlers build are each handed once to the handler of the    *)
(* peer they are for.  The Initiator holds h1, h2, h3 and the Responder    *)
(* h2, h3, h4; whose identity has authored each memory is drawn in Init.   *)
(***************************************************************************)
Initiator == 1
Responder == 2
SyncCalls == 1..MaxCalls
SyncHashes == 1..4

SyncDoc(k) == Text("raw", JObj([f |-> JStr(ToString(k))]))

\* Memory k, captured, signed and stored by its author at time 0.
SyncMemory(k, author) ==
    sign_memory(IdentityKey(author),
        NewSignedMemory(MemoryIdOf(k), DidOf(IdentityKey(author)), "individual", SyncDoc(k), 0))

IdleSync == [pc |-> "idle", started |-> FALSE]

SyncInit ==
    /\ memories = [p \in PeerIds |-> EmptyMap]
    /\ now = 1
    /\ op_count = 0
    /\ resolution_strategy = "ManualResolution"
    /\ \E author \in [SyncHashes -> PeerIds] :
          store = [p \in PeerIds |->
                      IF p = Initiator
                      THEN <<SyncMemory(1, author[1]), SyncMemory(2, author[2]),
                             SyncMemory(3, author[3])>>
                      ELSE <<SyncMemory(2, author[2]), SyncMemory(3, author[3]),
                             SyncMemory(4, author[4])>>]
    /\ id_unique \in BOOLEAN
    /\ memory_count = 0
    /\ sync_in_progress = [p \in PeerIds |-> {}]
    /\ last_sync_per_peer = [p \in PeerIds |-> EmptyMap]
    /\ NetIdle
    /\ ClaimIdle
    /\ FunIdle
    /\ AuthIdle
    /\ LockIdle
    /\ sync_calls = [c \in SyncCalls |-> IdleSync]
    /\ sent = <<>>
    /\ handled = {}

\* A message between the two nodes, of the sync that call c has started.
SyncMessage(kind, c, from_peer, to_peer, body) ==
    [kind |-> kind, sync |-> c, from_peer |-> from_peer, to_peer |-> to_peer, body |-> body]

\* sync_with_peer up to the end of its first lock of sync_state: the call
\* returns when the peer is in sync_in_progress and inserts it otherwise.
SyncBegin(c) ==
    /\ sync_calls[c].pc = "idle"
    /\ IF Responder \in sync_in_progress[Initiator]
       THEN /\ sync_calls' = [sync_calls EXCEPT ![c].pc = "returned"]
            /\ UNCHANGED sync_in_progress
       ELSE /\ sync_calls' = [sync_calls EXCEPT ![c] = [pc |-> "started", started |-> TRUE]]
            /\ sync_in_progress' = [sync_in_progress EXCEPT ![Initiator] = @ \cup {Responder}]
    /\ UNCHANGED <<memories, now, op_count, resolution_strategy, store, id_unique,
                   memory_count, last_sync_per_peer, sent, handled>>
    /\ UNCHANGED <<netVars, claimVars, authVars, lockVars, funVars>>

\* sync_with_peer from the read of last_sync_per_peer to the request it
\* builds for the networking layer.
SyncBuild(c) ==
    /\ sync_calls[c].pc = "started"
    /\ sync_calls' = [sync_calls EXCEPT ![c].pc = "built"]
    /\ sent' = Append(sent,
                      SyncMessage("request", c, Initiator, Responder,
                                  SyncRequest(Initiator, LastSyncOf(Node(Initiator), Responder),
                                              store[Initiator])))
    /\ UNCHANGED <<memories, now, op_count, resolution_strategy, nodeVars, handled>>
    /\ UNCHANGED <<netVars, claimVars, authVars, lockVars, funVars>>

\* cleanup_guard.complete() and the return of sync_with_peer.
SyncComplete(c) ==
    /\ sync_calls[c].pc = "built"
    /\ sync_calls' = [sync_calls EXCEPT ![c].pc = "returned"]
    /\ sync_in_progress' = [sync_in_progress EXCEPT ![Initiator] = @ \ {Responder}]
    /\ UNCHANGED <<memories, now, op_count, resolution_strategy, store, id_unique,
                   memory_count, last_sync_per_peer, sent, handled>>
    /\ UNCHANGED <<netVars, claimVars, authVars, lockVars, funVars>>

Pending(i, kind) == i \in (1..Len(sent)) \ handled /\ sent[i].kind = kind

\* handle_sync_request at the peer the request is for.
HandleSyncRequest(i) ==
    /\ Pending(i, "request")
    /\ sent' = Append(sent,
                      SyncMessage("response", sent[i].sync, sent[i].to_peer, sent[i].from_peer,
                                  handle_sync_request(Node(sent[i].to_peer), sent[i].body,
                                                      sent[i].to_peer)))
    /\ handled' = handled \cup {i}
    /\ UNCHANGED <<memories, now, op_count, resolution_strategy, nodeVars, sync_calls>>
    /\ UNCHANGED <<netVars, claimVars, authVars, lockVars, funVars>>

\* The MemorySync frames of a sync as messages for the peer.
RECURSIVE FramesSent(_, _, _)
FramesSent(frames, k, c) ==
    IF k > Len(frames) THEN <<>>
    ELSE <<SyncMessage("frame", c, frames[k].from_peer, frames[k].to_peer, frames[k].payload)>>
         \o FramesSent(frames, k + 1, c)

\* handle_sync_response at the peer the response is for.
HandleSyncResponse(i) ==
    /\ Pending(i, "response")
    /\ \E r \in {handle_sync_response(Node(sent[i].to_peer), sent[i].body, sent[i].to_peer,
                                      id_unique, now)} :
          /\ SetNode(sent[i].to_peer, r.node)
          /\ sent' = sent \o FramesSent(r.frames, 1, sent[i].sync)
    /\ handled' = handled \cup {i}
    /\ UNCHANGED <<now, op_count, resolution_strategy, id_unique, memory_count, sync_calls>>
    /\ UNCHANGED <<netVars, claimVars, authVars, lockVars, funVars>>

\* The MemorySync arm of process_message at the peer a frame is for, whose
\* current identity is the one it has created.
DeliverMissing(i) ==
    /\ Pending(i, "frame")
    /\ \E resolved \in ResolveOutcomes(sent[i].body.did, <<IdentityKey(sent[i].to_peer)>>) :
       \E net \in {process_message([store |-> store[sent[i].to_peer], peers |-> EmptyMap],
                                   [message_type |-> "MemorySync",
                                    payload |-> [kind |-> "memory", memory |-> sent[i].body],
                                    from_peer |-> sent[i].from_peer],
                                   "peer", <<IdentityKey(sent[i].to_peer)>>, resolved,
                                   id_unique, now)} :
          store' = [store EXCEPT ![sent[i].to_peer] = net.store]
    /\ handled' = handled \cup {i}
    /\ UNCHANGED <<memories, now, op_count, resolution_strategy, id_unique, memory_count,
                   sync_in_progress, last_sync_per_peer, sync_calls, sent>>
    /\ UNCHANGED <<netVars, claimVars, authVars, lockVars, funVars>>

SyncNext ==
    \/ \E c \in SyncCalls : SyncBegin(c)
    \/ \E c \in SyncCalls : SyncBuild(c)
    \/ \E c \in SyncCalls : SyncComplete(c)
    \/ \E i \in 1..Len(sent) : HandleSyncRequest(i)
    \/ \E i \in 1..Len(sent) : HandleSyncResponse(i)
    \/ \E i \in 1..Len(sent) : DeliverMissing(i)
    \/ \E n \in PeerIds : InitializeCrdt(n)

SpecSync == SyncInit /\ [][SyncNext]_vars

\* The syncs whose request has been built and whose response has not been
\* handled to its end.
Outstanding ==
    {sent[i].sync : i \in {j \in 1..Len(sent) : sent[j].kind = "request"}}
    \ {sent[i].sync : i \in {j \in handled : sent[j].kind = "response"}}

\* C8: from the request of a sync with the peer to the end of
\* handle_sync_response for it, the peer is in sync_in_progress and no
\* second sync with it is under way.
C8_OneSyncPerPeer ==
    Outstanding # {} =>
        /\ Responder \in sync_in_progress[Initiator]
        /\ Cardinality(Outstanding) <= 1

\* How many times a memory with the hash of memory k has been put in a
\* response or in a MemorySync frame.
RECURSIVE Carried(_, _)
Carried(i, hash) ==
    IF i = 0 THEN 0
    ELSE Carried(i - 1, hash)
         + (IF sent[i].kind = "response"
            THEN Len(SelectSeq(sent[i].body.memories,
                               LAMBDA memory : memory.content_hash = hash))
            ELSE IF sent[i].kind = "frame" /\ sent[i].body.content_hash = hash THEN 1
            ELSE 0)

Transferred(k) == Carried(Len(sent), compute_hash(SyncDoc(k)))

\* One sync has been started and everything it has led to has been handled.
OneSyncDone ==
    /\ Cardinality({c \in SyncCalls : sync_calls[c].started}) = 1
    /\ \A c \in SyncCalls : sync_calls[c].pc \in {"idle", "returned"}
    /\ \E i \in handled : sent[i].kind = "response"
    /\ handled = 1..Len(sent)

\* C9: a sync started by the holder of h1, h2, h3 with the holder of h2, h3,
\* h4 ends with both stores holding the four hashes, h1 and h4 each carried
\* once and h2 and h3 never.
C9_HashDiffSync ==
    OneSyncDone =>
        /\ \A p \in PeerIds : HashesOf(store[p]) = {compute_hash(SyncDoc(k)) : k \in SyncHashes}
        /\ Transferred(1) = 1 /\ Transferred(4) = 1
        /\ Transferred(2) = 0 /\ Transferred(3) = 0


(***************************************************************************)
(* The provenance specification: three peers hold the memory, each from    *)
(* its own add_memory or from its first merge_memory of another peer's     *)
(* CrdtMemory, edit it and merge each other's CrdtMemory.                  *)
(***************************************************************************)
JoinPeers == {1, 2, 3}
JoinUpdates == {<<<<"f">>, JStr("B")>>}

JoinInit ==
    /\ memories = [p \in JoinPeers |-> EmptyMap]
    /\ now = 0
    /\ op_count = 0
    /\ resolution_strategy = "ManualResolution"
    /\ NodeIdle
    /\ NetIdle
    /\ ClaimIdle
    /\ FunIdle
    /\ SyncIdle

JoinAdd(p) ==
    /\ MemoryId \notin DOMAIN memories[p]
    /\ \E new_map \in {add_memory(memories[p], BaseMemory, p, now)} :
          memories' = [memories EXCEPT ![p] = new_map]
    /\ UNCHANGED <<now, op_count, resolution_strategy>>
    /\ UNCHANGED notCrdtVars

JoinUpdate(p, field_path, value) ==
    /\ MemoryId \in DOMAIN memories[p]
    /\ op_count < MaxOps
    /\ \E r \in {update_memory(memories[p], MemoryId, op_count + 1, field_path, value, p, now)} :
          /\ ClocksWithinBound(r.memories)
          /\ memories' = [memories EXCEPT ![p] = r.memories]
    /\ op_count' = op_count + 1
    /\ UNCHANGED <<now, resolution_strategy>>
    /\ UNCHANGED notCrdtVars

\* merge_memory at peer p of the CrdtMemory peer q has now.
JoinMerge(p, q) ==
    /\ p # q
    /\ MemoryId \in DOMAIN memories[q]
    /\ \E r \in {merge_memory(memories[p], MemoryId, memories[q][MemoryId], p, now)} :
          /\ ClocksWithinBound(r.memories)
          /\ memories' = [memories EXCEPT ![p] = r.memories]
    /\ UNCHANGED <<now, op_count, resolution_strategy>>
    /\ UNCHANGED notCrdtVars

JoinNext ==
    \/ \E p \in JoinPeers : JoinAdd(p)
    \/ \E p \in JoinPeers, u \in JoinUpdates : JoinUpdate(p, u[1], u[2])
    \/ \E p, q \in JoinPeers : JoinMerge(p, q)

SpecJoin == JoinInit /\ [][JoinNext]_vars

\* The peer ids of a merged_from list, and whether the list is sorted with
\* no peer id twice.
PeersOf(list) == {list[i] : i \in 1..Len(list)}
StrictlySorted(list) == \A i \in 1..(Len(list) - 1) : list[i] < list[i + 1]

\* merged_from after a merge that has returned r holds what it held before
\* and what other's held, sorted and without duplicates.
MergedFromJoined(before, other, r) ==
    ~r.err =>
        /\ PeersOf(before.merge_metadata.merged_from)
              \cup PeersOf(other.merge_metadata.merged_from)
              \subseteq PeersOf(r.mem.merge_metadata.merged_from)
        /\ StrictlySorted(r.mem.merge_metadata.merged_from)

\* merged_from after a merge that has returned r is what it was before.
MergedFromKept(before, r) ==
    ~r.err /\ r.mem.merge_metadata.merged_from = before.merge_metadata.merged_from

\* The pairs of peers that both hold the memory.
JoinPairs ==
    {pq \in JoinPeers \X JoinPeers :
        /\ pq[1] # pq[2]
        /\ MemoryId \in DOMAIN memories[pq[1]]
        /\ MemoryId \in DOMAIN memories[pq[2]]}

MergeOfPeer(p, q) == merge_with(memories[p][MemoryId], memories[q][MemoryId], p, now)
OrderingOfPeer(p, q) ==
    compare(memories[p][MemoryId].vector_clock, memories[q][MemoryId].vector_clock)

\* C21 as stated: after every successful merge_with, whatever the clock
\* ordering, merged_from contains every peer id it held and every peer id of
\* other's merged_from, is sorted and has no duplicates.
C21_MergedFromJoinedAlways ==
    \A pq \in JoinPairs :
        MergedFromJoined(memories[pq[1]][MemoryId], memories[pq[2]][MemoryId],
                         MergeOfPeer(pq[1], pq[2]))

\* C21, amended: after every successful merge_with whose clocks compare
\* Less or Concurrent, merged_from contains every peer id it held and every
\* peer id of other's merged_from, is sorted and has no duplicates; with
\* Greater or Equal clocks the merge succeeds and leaves merged_from as it was.
C21_MergedFromJoined ==
    \A pq \in JoinPairs :
        IF OrderingOfPeer(pq[1], pq[2]) \in {"Less", "Concurrent"}
        THEN MergedFromJoined(memories[pq[1]][MemoryId], memories[pq[2]][MemoryId],
                              MergeOfPeer(pq[1], pq[2]))
        ELSE MergedFromKept(memories[pq[1]][MemoryId], MergeOfPeer(pq[1], pq[2]))

\* A merge with Less or Concurrent clocks that succeeds and joins a peer id
\* merged_from did not hold, and a merge with Greater or Equal clocks of a
\* memory whose merged_from holds a peer id ours does not.
C21_Witness ==
    /\ \E pq \in JoinPairs :
          /\ OrderingOfPeer(pq[1], pq[2]) \in {"Less", "Concurrent"}
          /\ ~MergeOfPeer(pq[1], pq[2]).err
          /\ MergeOfPeer(pq[1], pq[2]).mem.merge_metadata.merged_from
                # memories[pq[1]][MemoryId].merge_metadata.merged_from
    /\ \E pq \in JoinPairs :
          /\ OrderingOfPeer(pq[1], pq[2]) \in {"Greater", "Equal"}
          /\ ~(PeersOf(memories[pq[2]][MemoryId].merge_metadata.merged_from)
                  \subseteq PeersOf(memories[pq[1]][MemoryId].merge_metadata.merged_from))


(***************************************************************************)
(* The rehydration specification: the two peers of the CRDT specification, *)
(* each of which may also write its CrdtMemory to its serialized form and  *)
(* read it back, and call rebuild_index on it.                             *)
(***************************************************************************)
\* serde's Deserialize of a serialized CrdtMemory: operation_index is
\* skipped by the serialized form and starts as the empty set.
Deserialized(mem) == [mem EXCEPT !.operation_index = {}]

rebuild_index(mem) ==
    [mem EXCEPT !.operation_index =
        {mem.operations[i].operation_id : i \in 1..Len(mem.operations)}]

Rehydrate(p) ==
    /\ Holds(p)
    /\ memories[p][MemoryId].operation_index # {}
    /\ memories' = [memories EXCEPT ![p][MemoryId] = Deserialized(@)]
    /\ UNCHANGED <<now, op_count, resolution_strategy>>
    /\ UNCHANGED notCrdtVars

RebuildIndex(p) ==
    /\ Holds(p)
    /\ rebuild_index(memories[p][MemoryId]) # memories[p][MemoryId]
    /\ memories' = [memories EXCEPT ![p][MemoryId] = rebuild_index(@)]
    /\ UNCHANGED <<now, op_count, resolution_strategy>>
    /\ UNCHANGED notCrdtVars

RehydrateNext ==
    \/ CrdtNext
    \/ \E p \in PeerIds : Rehydrate(p)
    \/ \E p \in PeerIds : RebuildIndex(p)

SpecRehydrate == CrdtInit /\ [][RehydrateNext]_vars

\* C24: in every reachable state of a CrdtMemory, one read back from its
\* serialized form and used in apply_operation or merge_with included,
\* operation_index is the set of the operation_id values of operations.
C24_IndexMatchesLog ==
    \A p \in PeerIds :
        Holds(p) =>
            memories[p][MemoryId].operation_index
               = {memories[p][MemoryId].operations[i].operation_id :
                     i \in 1..Len(memories[p][MemoryId].operations)}

(***************************************************************************)
(* The specification of the calls of sync_with_peer with every way they    *)
(* end: the Initiator calls sync_with_peer for the Responder; a call       *)
(* returns an error from list_signed_memories or from the serialization of *)
(* the request, or its future is dropped at one of its awaits, or it runs  *)
(* to cleanup_guard.complete().  The task a dropped SyncCleanupGuard has   *)
(* spawned runs later.  A caller that is turned away calls again.          *)
(***************************************************************************)
SyncErrors == {"store", "serialization"}

\* list_signed_memories or serde_json::to_string returns an error: the call
\* returns it, the guard is dropped with completed false and spawns its task.
SyncFail(c, error) ==
    /\ sync_calls[c].pc = "started"
    /\ sync_calls' = [sync_calls EXCEPT ![c].pc = "spawned"]
    /\ outputs' = Append(outputs, [call |-> c, exit |-> error])
    /\ UNCHANGED <<memories, now, op_count, resolution_strategy, nodeVars, sent, handled>>
    /\ UNCHANGED <<netVars, claimVars, authVars, lockVars, inputs>>

\* SyncCleanupGuard::complete up to its await of the lock: completed is set.
CompleteMark(c) ==
    /\ sync_calls[c].pc = "built"
    /\ sync_calls' = [sync_calls EXCEPT ![c].pc = "completing"]
    /\ UNCHANGED <<memories, now, op_count, resolution_strategy, nodeVars, sent, handled>>
    /\ UNCHANGED <<netVars, claimVars, authVars, lockVars, funVars>>

\* SyncCleanupGuard::complete has the lock and removes the peer; the call
\* returns Ok.
CompleteRemove(c) ==
    /\ sync_calls[c].pc = "completing"
    /\ sync_calls' = [sync_calls EXCEPT ![c].pc = "returned"]
    /\ sync_in_progress' = [sync_in_progress EXCEPT ![Initiator] = @ \ {Responder}]
    /\ outputs' = Append(outputs, [call |-> c, exit |-> "success"])
    /\ UNCHANGED <<memories, now, op_count, resolution_strategy, store, id_unique,
                   memory_count, last_sync_per_peer, sent, handled>>
    /\ UNCHANGED <<netVars, claimVars, authVars, lockVars, inputs>>

\* The future of the call is dropped while it awaits the lock of sync_state:
\* for last_sync (the guard is dropped with completed false and spawns its
\* task) or inside complete (the guard is dropped with completed true).
SyncCancel(c) ==
    /\ sync_calls[c].pc \in {"started", "completing"}
    /\ sync_calls' = [sync_calls EXCEPT ![c].pc =
                         IF sync_calls[c].pc = "started" THEN "spawned" ELSE "dropped"]
    /\ outputs' = Append(outputs, [call |-> c, exit |-> "cancellation"])
    /\ UNCHANGED <<memories, now, op_count, resolution_strategy, nodeVars, sent, handled>>
    /\ UNCHANGED <<netVars, claimVars, authVars, lockVars, inputs>>

\* The task spawned by SyncCleanupGuard::drop runs.
CleanupTask(c) ==
    /\ sync_calls[c].pc = "spawned"
    /\ sync_calls' = [sync_calls EXCEPT ![c].pc = "cleaned"]
    /\ sync_in_progress' = [sync_in_progress EXCEPT ![Initiator] = @ \ {Responder}]
    /\ UNCHANGED <<memories, now, op_count, resolution_strategy, store, id_unique,
                   memory_count, last_sync_per_peer, sent, handled>>
    /\ UNCHANGED <<netVars, claimVars, authVars, lockVars, funVars>>

\* The caller whose call has returned at once, the peer being in
\* sync_in_progress, calls sync_with_peer again.
SyncAgain(c) ==
    /\ sync_calls[c] = [pc |-> "returned", started |-> FALSE]
    /\ sync_calls' = [sync_calls EXCEPT ![c] = IdleSync]
    /\ UNCHANGED <<memories, now, op_count, resolution_strategy, nodeVars, sent, handled>>
    /\ UNCHANGED <<netVars, claimVars, authVars, lockVars, funVars>>

\* A step of the call c or of the task of its guard, its cancellation apart.
CallStep(c) ==
    \/ SyncBegin(c)
    \/ SyncAgain(c)
    \/ SyncBuild(c)
    \/ \E error \in SyncErrors : SyncFail(c, error)
    \/ CompleteMark(c)
    \/ CompleteRemove(c)
    \/ CleanupTask(c)

SyncLiveNext ==
    \/ \E c \in SyncCalls : CallStep(c)
    \/ \E c \in SyncCalls : SyncCancel(c)

\* The runtime polls a call that is not cancelled, grants the lock of
\* sync_state to a task that awaits it, and runs a spawned task.
SpecSyncLive ==
    SyncInit /\ [][SyncLiveNext]_vars /\ \A c \in SyncCalls : WF_vars(CallStep(c))

\* C28: once sync_with_peer has inserted the peer into sync_in_progress,
\* the peer is eventually removed from it, by whichever way the call ends.
C28_CleanupOnEveryExit ==
    (Responder \in sync_in_progress[Initiator]) ~> (Responder \notin sync_in_progress[Initiator])

(***************************************************************************)
(* The specification of handle_sync_request as a function of the table of  *)
(* the Responder and of the request: three stored memories, each with a    *)
(* timestamp that is an instant or does not parse, and a request with its  *)
(* last_sync_timestamp and the hashes it says are known.                   *)
(***************************************************************************)
Malformed_timestamp == 0 - 1
Stamps == {Malformed_timestamp, 1, 2}
StoredDocs == 1..3

StampedMemory(k, timestamp) ==
    sign_memory(IdentityKey(Responder),
        NewSignedMemory(MemoryIdOf(k), DidOf(IdentityKey(Responder)), "individual",
                        SyncDoc(k), timestamp))

\* The hashes a request can name: of two of the stored memories and of a
\* memory that is not stored.
KnownHashes == {compute_hash(SyncDoc(k)) : k \in 2..4}
KnownLists == {<<>>} \cup {<<x>> : x \in KnownHashes} \cup (KnownHashes \X KnownHashes)

RequestInit ==
    /\ CrdtIdle
    /\ \E stamp \in [StoredDocs -> Stamps] :
          store = [p \in PeerIds |->
                      IF p = Responder
                      THEN [k \in StoredDocs |-> StampedMemory(k, stamp[k])]
                      ELSE <<>>]
    /\ id_unique = FALSE
    /\ memory_count = 0
    /\ sync_in_progress = [p \in PeerIds |-> {}]
    /\ last_sync_per_peer = [p \in PeerIds |-> EmptyMap]
    /\ NetIdle
    /\ ClaimIdle
    /\ SyncIdle
    /\ \E last_sync \in {<<>>} \cup {<<t>> : t \in Stamps} :
       \E known \in KnownLists :
          inputs = [requesting_peer |-> Initiator, last_sync_timestamp |-> last_sync,
                    known_memory_hashes |-> known]
    /\ outputs = <<>>

\* handle_sync_request on the request, at the Responder.
AnswerRequest ==
    /\ outputs = <<>>
    /\ outputs' = <<handle_sync_request(Node(Responder), inputs, Responder)>>
    /\ UNCHANGED <<memories, now, op_count, resolution_strategy, nodeVars, inputs>>
    /\ UNCHANGED <<netVars, claimVars, syncVars, authVars, lockVars>>

RequestNext == AnswerRequest

SpecRequest == RequestInit /\ [][RequestNext]_vars

\* The elements of a list, and the stored memories that a condition on the
\* timestamp and the hashes of the request select.
Elements(list) == {list[i] : i \in 1..Len(list)}
LaterThan(timestamp, last_sync) ==
    \/ last_sync = <<>>
    \/ /\ timestamp # Malformed_timestamp
       /\ last_sync[1] # Malformed_timestamp
       /\ timestamp > last_sync[1]
Unknown(memory) == memory.content_hash \notin Elements(inputs.known_memory_hashes)
MissingHere ==
    {hash \in Elements(inputs.known_memory_hashes) :
        \A memory \in Elements(store[Responder]) : memory.content_hash # hash}

\* C29 as stated: the memories returned are the stored memories whose
\* timestamp is later than last_sync_timestamp (all when it is absent) and
\* whose content_hash is not in known_memory_hashes; the missing_hashes are
\* the known hashes no stored memory has.
C29_LaterAndUnknown ==
    outputs # <<>> =>
        /\ Elements(outputs[1].memories) =
              {memory \in Elements(store[Responder]) :
                  LaterThan(memory.timestamp, inputs.last_sync_timestamp) /\ Unknown(memory)}
        /\ Elements(outputs[1].missing_hashes) = MissingHere

\* C29, amended: the memories returned are the stored memories whose
\* content_hash is not in known_memory_hashes and whose timestamp is later
\* than last_sync_timestamp, or does not parse, or last_sync_timestamp is
\* absent or does not parse; the missing_hashes are the known hashes no
\* stored memory has.
C29_NewerOrUnparsed ==
    outputs # <<>> =>
        /\ Elements(outputs[1].memories) =
              {memory \in Elements(store[Responder]) :
                  /\ \/ LaterThan(memory.timestamp, inputs.last_sync_timestamp)
                     \/ memory.timestamp = Malformed_timestamp
                     \/ inputs.last_sync_timestamp = <<Malformed_timestamp>>
                  /\ Unknown(memory)}
        /\ Elements(outputs[1].missing_hashes) = MissingHere

\* A request with a last_sync_timestamp that parses is answered with a
\* memory whose timestamp does not parse, while one stored memory is held
\* back as not later, one as known, and one known hash is missing.
C29_Witness ==
    /\ outputs # <<>>
    /\ inputs.last_sync_timestamp \notin {<<>>, <<Malformed_timestamp>>}
    /\ \E memory \in Elements(outputs[1].memories) : memory.timestamp = Malformed_timestamp
    /\ \E memory \in Elements(store[Responder]) \ Elements(outputs[1].memories) :
          Unknown(memory)
    /\ \E memory \in Elements(store[Responder]) : ~Unknown(memory)
    /\ outputs[1].missing_hashes # <<>>

(***************************************************************************)
(* The specification of handle_sync_response at the Initiator, which has   *)
(* stored memories 1 and 2 and may have loaded them into its CrdtManager:  *)
(* the response of the Responder carries one or two memories, each new,    *)
(* or with the id of a stored memory and another content, or with a        *)
(* content_hash that is not the hash of its memory_data.                   *)
(***************************************************************************)
Fresh == SyncMemory(4, Responder)
Rewritten == [SyncMemory(4, Responder) EXCEPT !.id = MemoryIdOf(1)]
Tampered == [SyncMemory(4, Responder) EXCEPT !.memory_data = SyncDoc(3)]
TamperedKnown == [SyncMemory(3, Responder) EXCEPT !.id = MemoryIdOf(2),
                                                    !.memory_data = SyncDoc(4)]
Inbound == {Fresh, Rewritten, Tampered, TamperedKnown}
InboundLists == {<<x>> : x \in Inbound} \cup {<<x, y>> : x, y \in Inbound}

ResponseInit ==
    /\ CrdtIdle
    /\ \E author \in [1..2 -> PeerIds] :
          store = [p \in PeerIds |->
                      IF p = Initiator
                      THEN <<SyncMemory(1, author[1]), SyncMemory(2, author[2])>>
                      ELSE <<>>]
    /\ id_unique \in BOOLEAN
    /\ memory_count = 0
    /\ sync_in_progress = [p \in PeerIds |-> IF p = Initiator THEN {Responder} ELSE {}]
    /\ last_sync_per_peer = [p \in PeerIds |-> EmptyMap]
    /\ NetIdle
    /\ ClaimIdle
    /\ SyncIdle
    /\ \E received \in InboundLists :
       \E missing_hashes \in {<<>>, <<compute_hash(SyncDoc(1))>>} :
          inputs = [responding_peer |-> Responder, memories |-> received,
                    missing_hashes |-> missing_hashes]
    /\ outputs = <<>>

\* handle_sync_response on the response; outputs keeps the node as it was
\* before the call.
ReceiveResponse ==
    /\ outputs = <<>>
    /\ \E r \in {handle_sync_response(Node(Initiator), inputs, Initiator, id_unique, now)} :
          /\ SetNode(Initiator, r.node)
          /\ sent' = sent \o FramesSent(r.frames, 1, 1)
    /\ outputs' = <<Node(Initiator)>>
    /\ UNCHANGED <<now, op_count, resolution_strategy, id_unique, memory_count, inputs>>
    /\ UNCHANGED <<netVars, claimVars, authVars, lockVars, sync_calls, handled>>

ResponseNext ==
    \/ ReceiveResponse
    \/ outputs = <<>> /\ InitializeCrdt(Initiator)

SpecResponse == ResponseInit /\ [][ResponseNext]_vars

\* The node before the turn of the loop on the i-th received memory, the
\* node after a turn and what merge_memory returns in it.
BeforeTurn(i) ==
    StoreAllReceived(outputs[1], SubSeq(inputs.memories, 1, i - 1), 1, Responder,
                     Initiator, id_unique, now)
AfterTurn(before, memory) ==
    StoreReceived(before, memory, Responder, Initiator, id_unique, now)
MergeInTurn(before, memory) ==
    merge_memory(before.memories, memory.id, NewCrdtMemory(memory, Responder, now),
                 Initiator, now)
MergedCleanly(r) == ~r.err /\ r.conflicts = <<>>
TurnStoresOnlyMerged(before, memory) ==
    /\ AfterTurn(before, memory).store # before.store =>
          verify_hash(memory) /\ MergedCleanly(MergeInTurn(before, memory))
    /\ ~verify_hash(memory) => AfterTurn(before, memory) = before
    /\ (verify_hash(memory) /\ ~MergedCleanly(MergeInTurn(before, memory))) =>
          AfterTurn(before, memory).store = before.store

PeerPort == 8080
Stranger == [uuid |-> TRUE, name |-> "peer-3"]
PeerFrames ==
    {Frame("Handshake", TextPayload, RemotePeer, 0, "n1"),
     Frame("Ping", TextPayload, RemotePeer, 0, "n2"),
     Frame("Ping", TextPayload, RemotePeer, 0, "n3"),
     Frame("Ping", TextPayload, Stranger, 0, "n4")}

\* connect_to_peer to the peer at PeerIp.
ConnectToPeer ==
    /\ peers' = connect_to_peer(peers, PeerIp, PeerPort, now)
    /\ UNCHANGED <<now, store, id_unique, message_nonces, message_counts, current_identity,
                   deliveries, connection_tracker, connections>>
    /\ UNCHANGED notNetVars

PeersNext ==
    \/ ConnectToPeer
    \/ \E frame \in PeerFrames : Deliver(frame, "none")
    \/ \E t \in Instants : Elapse(t)

SpecPeers == NetInit /\ [][PeersNext]_vars

\* The entries of the peer table that are of the peer with a peer id: the
\* one under the peer id, and for RemotePeer the one under its address.
EntriesOf(from_peer) ==
    {key \in DOMAIN peers :
        \/ key = from_peer
        \/ from_peer = RemotePeer /\ key = AddressKey(PeerIp, PeerPort)}
PingUpdates(d) ==
    /\ DOMAIN peers' = DOMAIN peers
    /\ \A key \in DOMAIN peers :
          IF key \in EntriesOf(d.frame.from_peer)
          THEN peers'[key] = [peers[key] EXCEPT !.last_seen = now]
          ELSE peers'[key] = peers[key]

\* C31: a Ping that is dispatched sets last_seen of every entry of its
\* sender, whether a Handshake or connect_to_peer has made the entry, to
\* the time of the Ping, and leaves every other entry and the set of
\* entries as they were.
C31_PingTouchesSender ==
    [][(/\ Len(deliveries') = Len(deliveries) + 1
        /\ deliveries'[Len(deliveries')].outcome = "dispatched"
        /\ deliveries'[Len(deliveries')].frame.message_type = "Ping")
          => PingUpdates(deliveries'[Len(deliveries')])]_vars

\* ---------------------------------------------------------------------------
\* The shared mutexes of one node and the tasks that take them.
\* ---------------------------------------------------------------------------

\* The six tokio mutexes, in the order the lock discipline names them.
LockOrder ==
    <<"rate_limiter", "connection_tracker", "message_nonces", "peers", "sync_state",
      "crdt_manager">>
LockNames == {LockOrder[i] : i \in DOMAIN LockOrder}
Rank(lock) == CHOOSE i \in DOMAIN LockOrder : LockOrder[i] = lock

MaxTasks == 3
TaskIds == 1..MaxTasks

Lock(lock) == <<[op |-> "lock", on |-> lock]>>
Unlock(lock) == <<[op |-> "unlock", on |-> lock]>>
Suspend(on) == <<[op |-> "await", on |-> on]>>
Locked(lock) == Lock(lock) \o Unlock(lock)

\* process_message: the locks one arm takes, in program order.
process_message_steps(message_type) ==
    CASE message_type = "Handshake" -> Locked("peers")
      [] message_type = "MemorySync" -> Suspend("ocm_protocol")
      [] message_type = "MemoryRequest" -> Locked("peers") \o Suspend("send")
      [] message_type = "PeerDiscovery" -> Locked("peers") \o Suspend("send")
      [] message_type = "Ping" -> Locked("peers")

\* get_sync_statistics with the two locks taken the other way round.
get_sync_statistics_crdt_first ==
    Lock("crdt_manager") \o Lock("sync_state") \o Unlock("sync_state")
        \o Unlock("crdt_manager")

\* get_sync_statistics: the sync-state guard lives to the end of the function,
\* the CRDT guard is taken beneath it.
get_sync_statistics_steps ==
    Lock("sync_state") \o Lock("crdt_manager") \o Unlock("crdt_manager")
        \o Unlock("sync_state")

\* handle_sync_response: the CRDT lock once per memory, inside the loop, then the
\* missing memories are sent, then the sync state is marked.
handle_sync_response_steps ==
    Locked("crdt_manager") \o Suspend("send") \o Locked("sync_state")

\* handle_connection, for one frame of the given type.
handle_connection_steps(message_type) ==
    Locked("connection_tracker") \o Suspend("read") \o Locked("rate_limiter")
        \o Locked("message_nonces") \o process_message_steps(message_type)
        \o Suspend("write")

MessageTypes == {"Handshake", "MemorySync", "MemoryRequest", "PeerDiscovery", "Ping"}

\* The functions of the transport, as [name, message_type].
NetworkingFunctions ==
    [name : {"handle_connection"}, message_type : MessageTypes]
        \cup [name : {"ConnectionGuard::drop", "connect_to_peer", "broadcast_memory",
                      "request_memories_from_peers", "discover_peers", "start_heartbeat"},
              message_type : {""}]

\* The functions of the sync manager.
SyncFunctions ==
    [name : {"sync_with_peer", "SyncCleanupGuard::drop", "start_sync_service",
             "handle_sync_response", "initialize_crdt_from_database",
             "update_memory_field", "get_conflict_summary", "force_resolve_conflicts",
             "get_sync_statistics"},
     message_type : {""}]

Functions == NetworkingFunctions \cup SyncFunctions

\* The lock and suspension steps of each function of the transport.
NetworkingSteps(function) ==
    CASE function.name = "handle_connection" ->
            handle_connection_steps(function.message_type)
      [] function.name = "ConnectionGuard::drop" -> Locked("connection_tracker")
      [] function.name = "connect_to_peer" -> Suspend("connect") \o Locked("peers")
      [] function.name \in {"broadcast_memory", "request_memories_from_peers",
                            "discover_peers"} ->
            Lock("peers") \o Suspend("send") \o Unlock("peers")
      [] function.name = "start_heartbeat" -> Suspend("tick") \o Locked("peers")

\* The lock and suspension steps of each function of the sync manager.
SyncSteps(function) ==
    CASE function.name = "sync_with_peer" ->
            Locked("sync_state") \o Locked("sync_state") \o Suspend("send")
                \o Locked("sync_state")
      [] function.name = "SyncCleanupGuard::drop" -> Locked("sync_state")
      [] function.name = "start_sync_service" -> Suspend("tick") \o Locked("sync_state")
      [] function.name = "handle_sync_response" -> handle_sync_response_steps
      [] function.name \in {"initialize_crdt_from_database", "update_memory_field",
                            "get_conflict_summary", "force_resolve_conflicts"} ->
            Locked("crdt_manager")
      [] function.name = "get_sync_statistics" -> get_sync_statistics_steps

Steps(function) ==
    IF function \in NetworkingFunctions THEN NetworkingSteps(function)
    ELSE SyncSteps(function)

IdleTask == [function |-> [name |-> "", message_type |-> ""], pc |-> 0]

LockInit ==
    /\ CrdtIdle
    /\ NodeIdle
    /\ NetIdle
    /\ ClaimIdle
    /\ FunIdle
    /\ AuthIdle
    /\ sync_calls = <<>>
    /\ sent = <<>>
    /\ handled = {}
    /\ locks = [lock \in LockNames |-> <<>>]
    /\ tasks = [task \in TaskIds |-> IdleTask]

notLockVars == <<crdtVars, nodeVars, netVars, claimVars, funVars, syncVars, authVars>>

\* The step a task is at, or <<>> when it is idle.
StepOf(task_state) ==
    IF task_state.pc = 0 THEN <<>>
    ELSE <<Steps(task_state.function)[task_state.pc]>>

\* One step further; a task past its last step is idle again.
Advance(task_state) ==
    IF task_state.pc = Len(Steps(task_state.function)) THEN IdleTask
    ELSE [task_state EXCEPT !.pc = task_state.pc + 1]

\* tokio::spawn, or a call from the application: the task starts a function.
Spawn(task, function) ==
    /\ tasks[task] = IdleTask
    /\ tasks' = [tasks EXCEPT ![task] = [function |-> function, pc |-> 1]]
    /\ UNCHANGED <<locks, notLockVars>>

\* Mutex::lock().await returns: the mutex is free and the task takes it.
Acquire(task) ==
    /\ tasks[task].pc > 0
    /\ \E step \in {Steps(tasks[task].function)[tasks[task].pc]} :
        /\ step.op = "lock"
        /\ locks[step.on] = <<>>
        /\ locks' = [locks EXCEPT ![step.on] = <<task>>]
    /\ tasks' = [tasks EXCEPT ![task] = Advance(tasks[task])]
    /\ UNCHANGED notLockVars

\* The guard is dropped.
Release(task) ==
    /\ tasks[task].pc > 0
    /\ \E step \in {Steps(tasks[task].function)[tasks[task].pc]} :
        /\ step.op = "unlock"
        /\ locks' = [locks EXCEPT ![step.on] = <<>>]
    /\ tasks' = [tasks EXCEPT ![task] = Advance(tasks[task])]
    /\ UNCHANGED notLockVars

\* Any other suspension point completes (a read, a write, a tick, an
\* acknowledgment or its timeout).
Resume(task) ==
    /\ tasks[task].pc > 0
    /\ \E step \in {Steps(tasks[task].function)[tasks[task].pc]} : step.op = "await"
    /\ tasks' = [tasks EXCEPT ![task] = Advance(tasks[task])]
    /\ UNCHANGED <<locks, notLockVars>>

LockNext ==
    \/ \E task \in TaskIds, function \in Functions : Spawn(task, function)
    \/ \E task \in TaskIds : Acquire(task)
    \/ \E task \in TaskIds : Release(task)
    \/ \E task \in TaskIds : Resume(task)

SpecLock == LockInit /\ [][LockNext]_vars

HeldBy(task) == {lock \in LockNames : locks[lock] = <<task>>}

\* The mutex the task is waiting for, or <<>>.
Wanted(task) ==
    IF tasks[task].pc = 0 THEN <<>>
    ELSE IF Steps(tasks[task].function)[tasks[task].pc].op = "lock"
         THEN <<Steps(tasks[task].function)[tasks[task].pc].on>>
         ELSE <<>>

\* Every mutex a task holds comes before the mutex it is about to take.
OrderKept ==
    \A task \in TaskIds :
        Wanted(task) # <<>> =>
            \A held \in HeldBy(task) : Rank(held) < Rank(Wanted(task)[1])

\* The tasks of a set all wait for mutexes held within the set.
Deadlocked(waiting) ==
    /\ waiting # {}
    /\ \A task \in waiting :
        /\ Wanted(task) # <<>>
        /\ \E holder \in waiting : locks[Wanted(task)[1]] = <<holder>>

\* C32: a task never takes one of the six mutexes while it holds that mutex or a
\* later one of the order rate-limit, connection-tracker, replay-nonces,
\* peer-table, sync-state, CRDT, and no set of tasks of the node waits in a cycle.
C32_LockOrder ==
    /\ OrderKept
    /\ \A waiting \in SUBSET TaskIds : ~Deadlocked(waiting)

\* One task holds the sync state and the CRDT manager at once while another
\* waits for the CRDT manager and a third for the sync state.
C32_Witness ==
    \E holder \in TaskIds, first \in TaskIds, second \in TaskIds :
        /\ HeldBy(holder) = {"sync_state", "crdt_manager"}
        /\ Wanted(first) = <<"crdt_manager">>
        /\ Wanted(second) = <<"sync_state">>
        /\ first # holder
        /\ second # holder

\* ---------------------------------------------------------------------------
\* The conflict summary.
\* ---------------------------------------------------------------------------

\* CrdtManager::list_conflicts: the ids of the memories whose strategy is
\* ManualResolution.
list_conflicts(crdt_memories) ==
    {memory_id \in DOMAIN crdt_memories :
        crdt_memories[memory_id].merge_metadata.conflict_resolution_strategy
            = "ManualResolution"}

\* get_conflict_summary of peer p.
get_conflict_summary(p) ==
    [total_conflicts |-> Cardinality(list_conflicts(memories[p])),
     conflicted_memory_ids |-> list_conflicts(memories[p])]

\* The memory of peer p has never been merged: the other peer, whose CrdtMemory
\* a merge needs, does not hold the memory, and memories are never removed.
NeverMerged(p) == Holds(p) /\ ~Holds(Other(p))

\* C33: (as stated) get_conflict_summary lists a memory id only if a merge of
\* that memory has produced a ConflictInfo; a memory that was never merged, and
\* so never had a conflict, is not listed.
C33_ListedOnlyAfterConflict ==
    \A p \in PeerIds :
        NeverMerged(p) => MemoryId \notin get_conflict_summary(p).conflicted_memory_ids

\* ---------------------------------------------------------------------------
\* The vector clock of a CrdtMemory over apply_operation and merge_with.
\* ---------------------------------------------------------------------------

ClockOf(map) == map[MemoryId].vector_clock

\* No counter of the second clock is below its counter in the first.
NotBelow(clock, later) ==
    \A q \in DOMAIN clock : CounterOf(later, q) >= clock[q]

\* C34: over every apply_operation and merge_with on the CrdtMemory of a peer p
\* no counter of its vector clock decreases, and a step that adds an operation
\* to its log (an operation newly applied with local peer p) strictly increases
\* the counter of p.
C34_ClockMonotone ==
    [][\A p \in PeerIds :
          (Holds(p) /\ memories'[p] # memories[p]) =>
              /\ NotBelow(ClockOf(memories[p]), ClockOf(memories'[p]))
              /\ Len(memories'[p][MemoryId].operations)
                    > Len(memories[p][MemoryId].operations)
                 => CounterOf(ClockOf(memories'[p]), p)
                        > CounterOf(ClockOf(memories[p]), p)]_vars

\* A peer has applied an operation of its own and, by a merge, one that the
\* other peer made: its log holds both and its clock counts both peers.
C34_Witness ==
    \E p \in PeerIds :
        /\ Holds(p)
        /\ \E i, j \in DOMAIN memories[p][MemoryId].operations :
              /\ CounterOf(memories[p][MemoryId].operations[i].vector_clock, Other(p)) > 0
              /\ CounterOf(memories[p][MemoryId].operations[j].vector_clock, Other(p)) = 0
        /\ CounterOf(ClockOf(memories[p]), p) >= 2
        /\ CounterOf(ClockOf(memories[p]), Other(p)) >= 1

\* update_memory of peer p with the given path and value has returned an error.
UpdateFailed(p, field_path, value) ==
    /\ UpdateMemory(p, field_path, value)
    /\ update_memory(memories[p], MemoryId, op_count + 1, field_path, value, p, now).err

\* C36: (as stated) when apply_operation returns an error the CrdtMemory is as
\* before the call: vector_clock, base_memory, operations and operation_index.
C36_ErrorLeavesMemory ==
    [][\A p \in PeerIds, u \in Updates :
          UpdateFailed(p, u[1], u[2]) =>
              /\ ClockOf(memories'[p]) = ClockOf(memories[p])
              /\ memories'[p][MemoryId].base_memory = memories[p][MemoryId].base_memory
              /\ memories'[p][MemoryId].operations = memories[p][MemoryId].operations
              /\ memories'[p][MemoryId].operation_index
                    = memories[p][MemoryId].operation_index]_vars

\* ---------------------------------------------------------------------------
\* The session specification: one AuthStore, its sessions and the wall clock.
\* inputs is the record of the create_session calls made, outputs the last
\* validate_session call: its argument, its time, the create_session calls made
\* before it and what it returned.
\* ---------------------------------------------------------------------------
MaxSessions == 2
UserDids == {"did:plc:alice", "did:plc:bob"}
Lifetimes == {0, 1, 2}
AuthInstants == {hours(1) - 1, hours(1), hours(2)}
SessionIds == 1..(MaxSessions + 1)

AuthInit ==
    /\ CrdtIdle
    /\ NodeIdle
    /\ NetIdle
    /\ ClaimIdle
    /\ FunIdle
    /\ SyncIdle

notAuthVars ==
    <<memories, op_count, resolution_strategy, nodeVars, netVars, claimVars, syncVars,
      lockVars>>

\* create_session: the session id is a fresh UUID.
CreateSession(user_did, expires_in_hours) ==
    /\ Len(inputs) < MaxSessions
    /\ sessions' = create_session(sessions, Len(inputs) + 1, user_did, <<"read">>,
                                  expires_in_hours, now)
    /\ inputs' = Append(inputs,
                    [session_id |-> Len(inputs) + 1, user_did |-> user_did,
                     expires_in_hours |-> expires_in_hours,
                     expires_at |-> now + hours(expires_in_hours),
                     invalidated |-> FALSE])
    /\ UNCHANGED <<now, outputs, notAuthVars>>

ValidateSession(session_id) ==
    /\ outputs' = <<[session_id |-> session_id, at |-> now, created |-> inputs,
                     returned |-> validate_session(sessions, session_id, now)]>>
    /\ UNCHANGED <<now, sessions, inputs, notAuthVars>>

UpdateSessionActivity(session_id) ==
    /\ sessions' = update_session_activity(sessions, session_id, now)
    /\ UNCHANGED <<now, inputs, outputs, notAuthVars>>

InvalidateSession(session_id) ==
    /\ sessions' = invalidate_session(sessions, session_id)
    /\ inputs' = [i \in DOMAIN inputs |->
                    IF inputs[i].session_id = session_id
                    THEN [inputs[i] EXCEPT !.invalidated = TRUE]
                    ELSE inputs[i]]
    /\ UNCHANGED <<now, outputs, notAuthVars>>

AuthElapse(t) ==
    /\ t > now
    /\ now' = t
    /\ UNCHANGED <<sessions, inputs, outputs, notAuthVars>>

AuthNext ==
    \/ \E user_did \in UserDids, expires_in_hours \in Lifetimes :
          CreateSession(user_did, expires_in_hours)
    \/ \E session_id \in SessionIds : ValidateSession(session_id)
    \/ \E session_id \in SessionIds : UpdateSessionActivity(session_id)
    \/ \E session_id \in SessionIds : InvalidateSession(session_id)
    \/ \E t \in AuthInstants : AuthElapse(t)

SpecAuth == AuthInit /\ [][AuthNext]_vars

\* What validate_session has to return at a time for a create_session call made.
Expected(created, at, returned) ==
    IF created.invalidated \/ at >= created.expires_at
    THEN returned = <<>>
    ELSE /\ returned # <<>>
         /\ returned[1].session_id = created.session_id
         /\ returned[1].user_did = created.user_did

\* C35: a session created with a positive lifetime is returned by
\* validate_session, with its user_did, at every time before its expiry and
\* before invalidate_session; once invalidated, or at or after its expiry,
\* validate_session returns None. The same holds of the result of every
\* validate_session call made.
C35_SessionValidity ==
    /\ \A i \in DOMAIN inputs :
          inputs[i].expires_in_hours > 0 =>
              Expected(inputs[i], now,
                       validate_session(sessions, inputs[i].session_id, now))
    /\ \A o \in DOMAIN outputs : \A i \in DOMAIN outputs[o].created :
          (/\ outputs[o].created[i].session_id = outputs[o].session_id
           /\ outputs[o].created[i].expires_in_hours > 0)
              => Expected(outputs[o].created[i], outputs[o].at, outputs[o].returned)

\* validate_session is called at the very instant a session of one hour expires
\* and returns None, while a session of two hours is still returned.
C35_Witness ==
    /\ now = hours(1)
    /\ \E o \in DOMAIN outputs :
          /\ outputs[o].at = now
          /\ outputs[o].returned = <<>>
          /\ \E i \in DOMAIN outputs[o].created :
                /\ outputs[o].created[i].session_id = outputs[o].session_id
                /\ outputs[o].created[i].expires_at = now
                /\ ~outputs[o].created[i].invalidated
    /\ \E i \in DOMAIN inputs :
          /\ inputs[i].expires_in_hours = 2
          /\ validate_session(sessions, inputs[i].session_id, now) # <<>>

\* C37: (as stated) no frame is dispatched twice by one node: once a frame has
\* been dispatched, no later delivery of the same frame is dispatched, whenever
\* it arrives.
C37_DispatchedOnce ==
    \A i, j \in 1..Len(deliveries) :
        (/\ i < j
         /\ deliveries[i].frame = deliveries[j].frame
         /\ deliveries[i].outcome = "dispatched")
            => deliveries[j].outcome # "dispatched"

\* ---------------------------------------------------------------------------
\* The gossip specification: the two nodes keep syncing pairwise, in both
\* directions, while a third peer hands either of them a memory it captured
\* earlier.  sent holds the messages in flight, the oldest first.
\* ---------------------------------------------------------------------------
ThirdPeer == Responder + 1
MaxGossipTime == 3
GossipMemories == {SyncMemory(1, Initiator), SyncMemory(2, Responder), SyncMemory(3, ThirdPeer)}

GossipInit ==
    /\ memories = [p \in PeerIds |-> EmptyMap]
    /\ now = 1
    /\ op_count = 0
    /\ resolution_strategy = "ManualResolution"
    /\ store = [p \in PeerIds |->
                   IF p = Initiator THEN <<SyncMemory(1, Initiator)>>
                   ELSE <<SyncMemory(2, Responder)>>]
    /\ id_unique = TRUE
    /\ memory_count = 0
    /\ sync_in_progress = [p \in PeerIds |-> {}]
    /\ last_sync_per_peer = [p \in PeerIds |-> EmptyMap]
    /\ NetIdle
    /\ ClaimIdle
    /\ FunIdle
    /\ SyncIdle

notGossipVars == <<netVars, claimVars, funVars, authVars, lockVars, sync_calls, handled>>

\* sync_with_peer of peer p with the other node, from its first lock of
\* sync_state to cleanup_guard.complete(): the request it builds is handed to
\* the networking layer.
GossipSync(p) ==
    /\ sent = <<>>
    /\ sent' = <<SyncMessage("request", 1, p, Other(p),
                             SyncRequest(p, LastSyncOf(Node(p), Other(p)), store[p]))>>
    /\ UNCHANGED <<crdtVars, nodeVars, notGossipVars>>

\* handle_sync_request at the peer the request is for.
GossipRequest ==
    /\ sent # <<>>
    /\ Head(sent).kind = "request"
    /\ sent' = <<SyncMessage("response", 1, Head(sent).to_peer, Head(sent).from_peer,
                             handle_sync_request(Node(Head(sent).to_peer), Head(sent).body,
                                                 Head(sent).to_peer))>>
    /\ UNCHANGED <<crdtVars, nodeVars, notGossipVars>>

\* handle_sync_response at the peer the response is for.
GossipResponse ==
    /\ sent # <<>>
    /\ Head(sent).kind = "response"
    /\ \E r \in {handle_sync_response(Node(Head(sent).to_peer), Head(sent).body,
                                      Head(sent).to_peer, id_unique, now)} :
          /\ SetNode(Head(sent).to_peer, r.node)
          /\ sent' = FramesSent(r.frames, 1, 1)
    /\ UNCHANGED <<now, op_count, resolution_strategy, id_unique, memory_count, notGossipVars>>

\* The MemorySync arm of process_message at the peer a frame is for.
GossipFrame ==
    /\ sent # <<>>
    /\ Head(sent).kind = "frame"
    /\ \E resolved \in ResolveOutcomes(Head(sent).body.did, <<IdentityKey(Head(sent).to_peer)>>) :
       \E net \in {process_message([store |-> store[Head(sent).to_peer], peers |-> EmptyMap],
                                   [message_type |-> "MemorySync",
                                    payload |-> [kind |-> "memory", memory |-> Head(sent).body],
                                    from_peer |-> Head(sent).from_peer],
                                   "peer", <<IdentityKey(Head(sent).to_peer)>>, resolved,
                                   id_unique, now)} :
          store' = [store EXCEPT ![Head(sent).to_peer] = net.store]
    /\ sent' = Tail(sent)
    /\ UNCHANGED <<memories, now, op_count, resolution_strategy, id_unique, memory_count,
                   sync_in_progress, last_sync_per_peer, notGossipVars>>

\* Peer q handles a sync response of the third peer that carries the memory the
\* third peer captured at time 0.
ThirdPeerResponse(q) ==
    /\ sent = <<>>
    /\ SyncMemory(3, ThirdPeer).content_hash \notin HashesOf(store[q])
    /\ \E r \in {handle_sync_response(Node(q),
                     [responding_peer |-> ThirdPeer,
                      memories |-> <<SyncMemory(3, ThirdPeer)>>,
                      missing_hashes |-> <<>>],
                     q, id_unique, now)} :
          SetNode(q, r.node)
    /\ UNCHANGED <<now, op_count, resolution_strategy, id_unique, memory_count, sent,
                   notGossipVars>>

GossipTick ==
    /\ now < MaxGossipTime
    /\ now' = now + 1
    /\ UNCHANGED <<memories, op_count, resolution_strategy, nodeVars, sent, notGossipVars>>

GossipNext ==
    \/ \E p \in PeerIds : GossipSync(p)
    \/ GossipRequest
    \/ GossipResponse
    \/ GossipFrame
    \/ \E q \in PeerIds : ThirdPeerResponse(q)
    \/ GossipTick

\* The peers keep syncing: each of them starts a sync again and again (a sync
\* starts only when no message is in flight, so each peer is given its turn by
\* strong fairness), and every message in flight is handled.
SpecGossip ==
    /\ GossipInit
    /\ [][GossipNext]_vars
    /\ \A p \in PeerIds : SF_vars(GossipSync(p))
    /\ WF_vars(GossipRequest)
    /\ WF_vars(GossipResponse)
    /\ WF_vars(GossipFrame)

\* The responder q holds the memory and the requester does not.
HeldAndAbsent(q, memory) ==
    /\ memory.content_hash \in HashesOf(store[q])
    /\ memory.content_hash \notin HashesOf(store[Other(q)])

\* A sync response of q for the requester that carries the memory is in flight.
IncludedBy(q, memory) ==
    /\ sent # <<>>
    /\ Head(sent).kind = "response"
    /\ Head(sent).from_peer = q
    /\ Contains(Head(sent).body.memories, memory)

\* C38: (as stated) while the peers keep syncing pairwise, every memory that a
\* responder holds and the requester lacks is included in some later sync
\* response of that responder, whatever its creation timestamp.
C38_EventuallyIncluded ==
    \A q \in PeerIds : \A memory \in GossipMemories :
        HeldAndAbsent(q, memory) ~> IncludedBy(q, memory)

\* ---------------------------------------------------------------------------
\* The discovery specification: the two nodes, the peer-table mutex of each
\* (locks) and the tasks that run discover_peers and the handlers of the
\* PeerDiscovery frames they send each other (tasks, in the order they start).
\* A task that has sent a frame waits for the handler of that frame (child) to
\* write its acknowledgment; parent is the task a handler answers to.
\* ---------------------------------------------------------------------------
MaxDiscoveryTasks == 5

DiscoverInit ==
    /\ CrdtIdle
    /\ NodeIdle
    /\ NetIdle
    /\ ClaimIdle
    /\ FunIdle
    /\ AuthIdle
    /\ sync_calls = <<>>
    /\ sent = <<>>
    /\ handled = {}
    /\ locks = [n \in PeerIds |-> <<>>]
    /\ tasks = <<>>

DiscoverTask(n) ==
    [node |-> n, kind |-> "discover", pc |-> "lock", known |-> TRUE, parent |-> 0,
     child |-> 0, reply |-> ""]

\* The handle_connection task of a PeerDiscovery frame; known tells whether the
\* peer table of the node has an entry under the frame's from_peer.
HandlerTask(n, parent, known) ==
    [node |-> n, kind |-> "handler", pc |-> "lock", known |-> known, parent |-> parent,
     child |-> 0, reply |-> ""]

\* Where a task goes on when send_message_to_peer has returned.
AfterSend(task) == IF task.kind = "discover" THEN "release" ELSE "ack"

\* discover_peers is called on node n.
StartDiscover(n) ==
    /\ Len(tasks) < MaxDiscoveryTasks
    /\ \A i \in DOMAIN tasks : ~(tasks[i].kind = "discover" /\ tasks[i].node = n)
    /\ tasks' = Append(tasks, DiscoverTask(n))
    /\ UNCHANGED <<locks, notLockVars>>

\* self.peers.lock().await returns.
AcquirePeers(i) ==
    /\ tasks[i].pc = "lock"
    /\ locks[tasks[i].node] = <<>>
    /\ locks' = [locks EXCEPT ![tasks[i].node] = <<i>>]
    /\ tasks' = [tasks EXCEPT ![i].pc = IF tasks[i].kind = "discover" THEN "send" ELSE "locked"]
    /\ UNCHANGED notLockVars

\* The PeerDiscovery arm of process_message gives the lock up: drop(peers_lock)
\* before it answers a peer it knows, the end of the arm otherwise.
DropPeers(i) ==
    /\ tasks[i].pc = "locked"
    /\ locks' = [locks EXCEPT ![tasks[i].node] = <<>>]
    /\ tasks' = [tasks EXCEPT ![i].pc = IF tasks[i].known THEN "send" ELSE "ack"]
    /\ UNCHANGED notLockVars

\* send_message_to_peer up to its wait for the acknowledgment: the frame is
\* written and the other node starts a handler for it, or the connection fails.
SendToPeer(i, known) ==
    /\ tasks[i].pc = "send"
    /\ Len(tasks) < MaxDiscoveryTasks
    /\ tasks' = Append([tasks EXCEPT ![i].pc = "await", ![i].child = Len(tasks) + 1],
                       HandlerTask(Other(tasks[i].node), i, known))
    /\ UNCHANGED <<locks, notLockVars>>

ConnectFails(i) ==
    /\ tasks[i].pc = "send"
    /\ tasks' = [tasks EXCEPT ![i].pc = AfterSend(tasks[i]), ![i].reply = "failed"]
    /\ UNCHANGED <<locks, notLockVars>>

\* handle_connection writes the acknowledgment after process_message; the
\* sender, if it still waits for it, goes on.
WriteAck(i) ==
    /\ tasks[i].pc = "ack"
    /\ \E p \in {tasks[i].parent} :
          IF tasks[p].pc = "await" /\ tasks[p].child = i
          THEN tasks' = [tasks EXCEPT ![i].pc = "done", ![p].pc = AfterSend(tasks[p]),
                                      ![p].reply = "acked"]
          ELSE tasks' = [tasks EXCEPT ![i].pc = "done"]
    /\ UNCHANGED <<locks, notLockVars>>

\* The end of the loop of discover_peers: the guard goes out of scope.
ReleasePeers(i) ==
    /\ tasks[i].pc = "release"
    /\ locks' = [locks EXCEPT ![tasks[i].node] = <<>>]
    /\ tasks' = [tasks EXCEPT ![i].pc = "done"]
    /\ UNCHANGED notLockVars

\* The task can take a step of its own now.
CanStep(i) ==
    \/ tasks[i].pc \in {"locked", "send", "ack", "release"}
    \/ tasks[i].pc = "lock" /\ locks[tasks[i].node] = <<>>

\* tokio::time::timeout fires after 30 seconds without an acknowledgment; the
\* steps of the tasks take no time, so the 30 seconds pass only when no task
\* can take a step.
AckTimeout(i) ==
    /\ tasks[i].pc = "await"
    /\ \A j \in DOMAIN tasks : ~CanStep(j)
    /\ tasks' = [tasks EXCEPT ![i].pc = AfterSend(tasks[i]), ![i].reply = "timed_out"]
    /\ UNCHANGED <<locks, notLockVars>>

DiscoverNext ==
    \/ \E n \in PeerIds : StartDiscover(n)
    \/ \E i \in DOMAIN tasks : AcquirePeers(i)
    \/ \E i \in DOMAIN tasks : DropPeers(i)
    \/ \E i \in DOMAIN tasks, known \in BOOLEAN : SendToPeer(i, known)
    \/ \E i \in DOMAIN tasks : ConnectFails(i)
    \/ \E i \in DOMAIN tasks : WriteAck(i)
    \/ \E i \in DOMAIN tasks : ReleasePeers(i)
    \/ \E i \in DOMAIN tasks : AckTimeout(i)

SpecDiscover == DiscoverInit /\ [][DiscoverNext]_vars

\* Both nodes are in discover_peers, each waiting for the other's acknowledgment.
BothDiscovering ==
    \A n \in PeerIds : \E i \in DOMAIN tasks :
        tasks[i].kind = "discover" /\ tasks[i].node = n /\ tasks[i].pc = "await"

\* A task that waits for a remote acknowledgment holds the peer-table lock a
\* handler of an inbound frame is waiting for.
LockHeldAcrossAck ==
    \E i, j \in DOMAIN tasks :
        /\ tasks[i].pc = "await"
        /\ locks[tasks[i].node] = <<i>>
        /\ tasks[j].kind = "handler"
        /\ tasks[j].node = tasks[i].node
        /\ tasks[j].pc = "lock"

\* C39: (as stated) when both nodes run discover_peers toward each other at the
\* same time, no task that waits for a remote acknowledgment holds the
\* peer-table lock the handler of an inbound frame needs, and no
\* acknowledgment wait runs into its timeout.
C39_DiscoveryHandled ==
    /\ BothDiscovering => ~LockHeldAcrossAck
    /\ \A i \in DOMAIN tasks : tasks[i].reply # "timed_out"

\* What get_claim_statistics returns now for the organization, in a build with
\* or without overflow checks.
StatisticsNow(overflow_checks) ==
    get_claim_statistics(claim_tokens, proxy_memories, DidOf(OrganizationKey),
                         overflow_checks, now)

\* The three counts add up to the number of tokens and nothing has underflowed.
AddsUp(statistics) ==
    /\ ~statistics.panicked
    /\ ~statistics.tokens_active.borrow
    /\ statistics.tokens_active.low >= 0
    /\ statistics.tokens_claimed + statistics.tokens_expired + statistics.tokens_active.low
          = statistics.total_tokens_created

\* C40: (as stated) for every set of tokens of the organization,
\* get_claim_statistics returns tokens_claimed + tokens_expired + tokens_active
\* = total_tokens_created with tokens_active >= 0 and without an unsigned
\* underflow, also when a token is both claimed and past its expiry.
C40_StatisticsAddUp ==
    \A overflow_checks \in BOOLEAN : AddsUp(StatisticsNow(overflow_checks))

====
